---- MODULE Spec2Model ----
(***************************************************************************)
(* A model of the model-to-FMDL conversion engine                          *)
(* (src/aes_converter/Engines/lib/model2fmdl.py).                          *)
(*                                                                         *)
(* The engine is a pipeline of pure functions over in-memory object        *)
(* graphs.  Each function is an operator translated from its code; the     *)
(* state machine draws a call's arguments in Init and the action of the    *)
(* call stores what the call returns.                                      *)
(*                                                                         *)
(* Python objects are compared by identity.  Every object a conversion     *)
(* creates carries an id <<alloc, k>>: alloc names the convertModel call   *)
(* that allocated it, k its position in the list it was appended to.       *)
(* Source bones and source vertices are named by their position in the     *)
(* list of the source model that owns them.  Floats are integers.          *)
(***************************************************************************)
EXTENDS Integers, Sequences, FiniteSets, TLC

VARIABLES
    pc,      \* "call": the arguments are bound, "return": the call returned
    call,    \* the call being made: [fn |-> ..., <its arguments>]
    ret,     \* what the call returned (None before it returns)
    loaded,  \* the files loadModel has read, in order
    disk     \* the file system: [dirs: directory -> listing, models: path -> model]

vars == <<pc, call, ret, loaded, disk>>

\* Python's None where an object is expected
None == <<>>

\* Python's None where a string is expected
NoneStr == "<None>"

\* a file system with no directory and no model file
EmptyDisk == [dirs |-> <<>>, models |-> <<>>]

(***************************************************************************)
(* Generic helpers                                                         *)
(***************************************************************************)
Range(s) == {s[i] : i \in DOMAIN s}

Max2(a, b) == IF a >= b THEN a ELSE b

SeqsUpTo(S, n) == UNION {[1..k -> S] : k \in 0..n}

\* min(...) / max(...) of a non-empty collection of numbers
MinOf(S) == CHOOSE m \in S : \A o \in S : m <= o

MaxOf(S) == CHOOSE m \in S : \A o \in S : m >= o

\* the first index of s holding x, 0 when there is none
RECURSIVE IndexFrom(_, _, _)
IndexFrom(s, x, i) ==
    IF i > Len(s) THEN 0
    ELSE IF s[i] = x THEN i
    ELSE IndexFrom(s, x, i + 1)

IndexOf(s, x) == IndexFrom(s, x, 1)

(***************************************************************************)
(* Strings: str.lower(), `in`, startswith, os.path.basename                *)
(***************************************************************************)
UpperChars == "ABCDEFGHIJKLMNOPQRSTUVWXYZ"

LowerChars == "abcdefghijklmnopqrstuvwxyz"

CharAt(s, i) == SubSeq(s, i, i)

\* upper-case letter -> lower-case letter
LowerMap ==
    [c \in {CharAt(UpperChars, i) : i \in 1..Len(UpperChars)} |->
        CharAt(LowerChars, CHOOSE i \in 1..Len(UpperChars) : CharAt(UpperChars, i) = c)]

LowerChar(c) == IF c \in DOMAIN LowerMap THEN LowerMap[c] ELSE c

RECURSIVE Lower(_)
Lower(s) == IF s = "" THEN "" ELSE LowerChar(CharAt(s, 1)) \o Lower(Tail(s))

StartsWith(s, prefix) ==
    Len(s) >= Len(prefix) /\ SubSeq(s, 1, Len(prefix)) = prefix

EndsWith(s, suffix) ==
    Len(s) >= Len(suffix) /\ SubSeq(s, Len(s) - Len(suffix) + 1, Len(s)) = suffix

Contains(s, sub) ==
    \E i \in 1..(Len(s) - Len(sub) + 1) : SubSeq(s, i, i + Len(sub) - 1) = sub

\* os.path.basename: what follows the last "/"
Basename(path) ==
    LET slashes == {i \in 1..Len(path) : CharAt(path, i) = "/"}
    IN  IF slashes = {} THEN path
        ELSE SubSeq(path, MaxOf(slashes) + 1, Len(path))

(***************************************************************************)
(* PesSkeletonData.bones: the reference skeleton, name -> (sklParent,      *)
(* startPosition).  The dataset is not part of the sources at hand; this   *)
(* is a three-bone chain in its shape.                                     *)
(***************************************************************************)
SkeletonNames == {"Hips", "Spine", "Head"}

PesSkeletonData ==
    [n \in SkeletonNames |->
        CASE n = "Hips"  -> [sklParent |-> NoneStr, startPosition |-> <<0, 1, 0>>]
          [] n = "Spine" -> [sklParent |-> "Hips",  startPosition |-> <<0, 2, 0>>]
          [] n = "Head"  -> [sklParent |-> "Spine", startPosition |-> <<0, 3, 0>>]]

\* numpy.linalg.inv(Skeleton.pesToNumpy(pesBone.matrix)), rows flattened, [0:12];
\* the dataset's bind poses are translations to startPosition
InverseBindMatrix(name) ==
    LET p == PesSkeletonData[name].startPosition
    IN  <<1, 0, 0, -p[1], 0, 1, 0, -p[2], 0, 0, 1, -p[3]>>

IdentityMatrix == <<1, 0, 0, 0, 0, 1, 0, 0, 0, 0, 1, 0>>

(***************************************************************************)
(* convertBones                                                            *)
(***************************************************************************)
\* lines 216-220: the names to create, each once, in order of first occurrence
RECURSIVE BonesToCreate(_, _)
BonesToCreate(modelBones, bonesToCreate) ==
    IF modelBones = <<>> THEN bonesToCreate
    ELSE LET boneName == Head(modelBones)
         IN  BonesToCreate(Tail(modelBones),
                 IF boneName \notin Range(bonesToCreate)
                 THEN Append(bonesToCreate, boneName)
                 ELSE bonesToCreate)

\* lines 226-248: one new bone
NewFmdlBone(alloc, k, boneName) ==
    [id             |-> <<alloc, k>>,
     name           |-> boneName,
     children       |-> <<>>,
     matrix         |-> IF boneName \in DOMAIN PesSkeletonData
                        THEN InverseBindMatrix(boneName) ELSE IdentityMatrix,
     globalPosition |-> IF boneName \in DOMAIN PesSkeletonData
                        THEN PesSkeletonData[boneName].startPosition \o <<1>>
                        ELSE <<0, 0, 0, 1>>,
     localPosition  |-> <<0, 0, 0, 0>>,
     parent         |-> None,
     boundingBox    |-> None]

\* lines 251-255 without line 256: the parent is set, its children are not
RECURSIVE MutantSetParentsOnly(_, _, _)
MutantSetParentsOnly(fmdlBones, names, k) ==
    IF k > Len(fmdlBones) THEN fmdlBones
    ELSE LET name == fmdlBones[k].name
             parentName == IF name \in DOMAIN PesSkeletonData
                           THEN PesSkeletonData[name].sklParent ELSE NoneStr
         IN  IF name \in DOMAIN PesSkeletonData
                /\ parentName /= NoneStr /\ parentName /= ""
                /\ parentName \in Range(names)
             THEN MutantSetParentsOnly(
                      [fmdlBones EXCEPT ![k].parent =
                           fmdlBones[IndexOf(names, parentName)].id],
                      names, k + 1)
             ELSE MutantSetParentsOnly(fmdlBones, names, k + 1)

\* lines 251-256: the parent links, bone k onwards
RECURSIVE SetParents(_, _, _)
SetParents(fmdlBones, names, k) ==
    IF k > Len(fmdlBones) THEN fmdlBones
    ELSE LET name == fmdlBones[k].name
             parentName == IF name \in DOMAIN PesSkeletonData
                           THEN PesSkeletonData[name].sklParent ELSE NoneStr
         IN  IF name \in DOMAIN PesSkeletonData
                /\ parentName /= NoneStr /\ parentName /= ""
                /\ parentName \in Range(names)
             THEN LET p == IndexOf(names, parentName)
                      linked == [fmdlBones EXCEPT ![k].parent = fmdlBones[p].id]
                  IN  SetParents(
                          [linked EXCEPT ![p].children = Append(@, fmdlBones[k].id)],
                          names, k + 1)
             ELSE SetParents(fmdlBones, names, k + 1)

\* convertBones with the name test of line 218 dropped: one bone per source bone
MutantBonesNoDedup(modelBones, alloc) ==
    LET fmdlBones == [k \in 1..Len(modelBones) |-> NewFmdlBone(alloc, k, modelBones[k])]
    IN  [fmdlBones      |-> SetParents(fmdlBones, modelBones, 1),
         modelFmdlBones |-> [b \in 1..Len(modelBones) |-> <<alloc, b>>]]

\* convertBones(modelBones): (fmdlBones, {modelBone: fmdlBone}); a model bone
\* is its position in modelBones
convertBones(modelBones, alloc) ==
    LET bonesToCreate == BonesToCreate(modelBones, <<>>)
        fmdlBones == [k \in 1..Len(bonesToCreate) |->
                         NewFmdlBone(alloc, k, bonesToCreate[k])]
    IN  [fmdlBones      |-> SetParents(fmdlBones, bonesToCreate, 1),
         modelFmdlBones |-> [b \in 1..Len(modelBones) |->
                                <<alloc, IndexOf(bonesToCreate, modelBones[b])>>]]

(***************************************************************************)
(* convertMaterials                                                        *)
(*                                                                         *)
(* fs.dirs maps a directory   to its listing, a sequence of files          *)
(* [filename, parses, materials]: parses is whether ET.parse accepts the   *)
(* file, materials its <material> elements                                 *)
(* [name, shader, states, samplers], an absent attribute being NoneStr.    *)
(***************************************************************************)
\* element.get(attr, default)
GetAttr(value, default) == IF value = NoneStr THEN default ELSE value

\* lines 277-281: the .mtl files of the directory, in listing order
MtlFiles(fs, sourceDirectory) ==
    IF sourceDirectory \in DOMAIN fs.dirs
    THEN SelectSeq(fs.dirs[sourceDirectory],
                   LAMBDA f : EndsWith(Lower(f.filename), ".mtl"))
    ELSE <<>>

\* lines 291-294 keeping the element a name already has in the map
RECURSIVE MutantAddFirstWins(_, _)
MutantAddFirstWins(elements, mtlMaterials) ==
    IF elements = <<>> THEN mtlMaterials
    ELSE LET materialElement == Head(elements)
             materialName == materialElement.name
         IN  MutantAddFirstWins(Tail(elements),
                 IF materialName /= NoneStr /\ materialName /= ""
                 THEN mtlMaterials @@ (materialName :> materialElement)
                 ELSE mtlMaterials)

\* lines 291-294: the <material> elements of one parsed file, into the map
RECURSIVE AddMaterialElements(_, _)
AddMaterialElements(elements, mtlMaterials) ==
    IF elements = <<>> THEN mtlMaterials
    ELSE LET materialElement == Head(elements)
             materialName == materialElement.name
         IN  AddMaterialElements(Tail(elements),
                 IF materialName /= NoneStr /\ materialName /= ""
                 THEN (materialName :> materialElement) @@ mtlMaterials
                 ELSE mtlMaterials)

\* lines 284-296 without the try: the elements of a file that fails to parse
\* are added like the others
RECURSIVE MutantParseAll(_, _)
MutantParseAll(mtlFiles, mtlMaterials) ==
    IF mtlFiles = <<>> THEN mtlMaterials
    ELSE MutantParseAll(Tail(mtlFiles),
             AddMaterialElements(Head(mtlFiles).materials, mtlMaterials))

\* lines 284-296: name -> material element, over all the files; a file that
\* fails to parse raises inside the try and adds nothing
RECURSIVE ParseMtlFiles(_, _)
ParseMtlFiles(mtlFiles, mtlMaterials) ==
    IF mtlFiles = <<>> THEN mtlMaterials
    ELSE ParseMtlFiles(Tail(mtlFiles),
             IF Head(mtlFiles).parses
             THEN AddMaterialElements(Head(mtlFiles).materials, mtlMaterials)
             ELSE mtlMaterials)

\* lines 310-321: shader attribute -> (technique, shader)
TechniqueAndShader(shader) ==
    IF shader = "Basic_C" \/ shader = "Basic_CNSR"
    THEN [technique |-> "fox3DDF_Blin", shader |-> "fox3ddf_blin"]
    ELSE [technique |-> "fox3DFW_ConstantSRGB_NDR_Solid",
          shader    |-> "fox3dfw_constant_srgb_ndr_solid"]

\* lines 325-335: the value of a state flag after the loop over <state>
RECURSIVE StateFlag(_, _, _)
StateFlag(states, stateName, flag) ==
    IF states = <<>> THEN flag
    ELSE StateFlag(Tail(states), stateName,
             IF Head(states).name = stateName
             THEN GetAttr(Head(states).value, "0") = "1"
             ELSE flag)

\* lines 338-342: the first DiffuseMap sampler, None when there is none
DiffuseMapSampler(samplers) ==
    LET hits == {i \in DOMAIN samplers : samplers[i].name = "DiffuseMap"}
    IN  IF hits = {} THEN None ELSE samplers[MinOf(hits)]

UniformTextureDirectory == "/Assets/pes16/model/character/uniform/texture/"

UniformTextureFilename == "u0123p1.ftex"

CommonTextureDirectory == "/Assets/pes16/model/character/common/000/sourceimages/"

FaceTextureDirectory == "/Assets/pes16/model/character/face/real/00000/sourceimages/"

BootsTextureDirectory == "/Assets/pes16/model/character/boots/k0000/"

GlovesTextureDirectory == "/Assets/pes16/model/character/glove/g0000/"

\* lines 345-379 with the uniform special case dropped
MutantTextureNoUniform(texturePath, materialName, modelType, modelCategory) ==
    IF StartsWith(texturePath, "model/character/uniform/common")
    THEN [directory |-> CommonTextureDirectory, filename |-> Basename(texturePath)]
    ELSE [directory |-> BootsTextureDirectory, filename |-> Basename(texturePath)]

\* lines 345-379 with the material name of line 376 not lower-cased
MutantTextureNameCaseSensitive(texturePath, materialName, modelType, modelCategory) ==
    IF modelType /= NoneStr /\ modelType /= "" /\ Lower(modelType) = "uniform"
    THEN [directory |-> UniformTextureDirectory, filename |-> UniformTextureFilename]
    ELSE IF StartsWith(texturePath, "model/character/uniform/common")
    THEN [directory |-> CommonTextureDirectory, filename |-> Basename(texturePath)]
    ELSE LET localPath == IF StartsWith(texturePath, "./")
                          THEN SubSeq(texturePath, 3, Len(texturePath))
                          ELSE texturePath
         IN  [filename  |-> Basename(localPath),
              directory |->
                  IF modelCategory = "faces" THEN FaceTextureDirectory
                  ELSE IF modelCategory = "boots" THEN BootsTextureDirectory
                  ELSE IF modelCategory = "gloves" THEN GlovesTextureDirectory
                  ELSE IF Contains(materialName, "face") \/ Contains(materialName, "hair")
                          \/ Contains(materialName, "oral")
                       THEN FaceTextureDirectory
                       ELSE BootsTextureDirectory]

\* lines 345-379: the texture of a material whose descriptor has a DiffuseMap
ResolveTexture(texturePath, materialName, modelType, modelCategory) ==
    IF modelType /= NoneStr /\ modelType /= "" /\ Lower(modelType) = "uniform"
    THEN [directory |-> UniformTextureDirectory, filename |-> UniformTextureFilename]
    ELSE IF StartsWith(texturePath, "model/character/uniform/common")
    THEN [directory |-> CommonTextureDirectory, filename |-> Basename(texturePath)]
    ELSE LET localPath == IF StartsWith(texturePath, "./")
                          THEN SubSeq(texturePath, 3, Len(texturePath))
                          ELSE texturePath
             lowerName == Lower(materialName)
         IN  [filename  |-> Basename(localPath),
              directory |->
                  IF modelCategory = "faces" THEN FaceTextureDirectory
                  ELSE IF modelCategory = "boots" THEN BootsTextureDirectory
                  ELSE IF modelCategory = "gloves" THEN GlovesTextureDirectory
                  ELSE IF Contains(lowerName, "face") \/ Contains(lowerName, "hair")
                          \/ Contains(lowerName, "oral")
                       THEN FaceTextureDirectory
                       ELSE BootsTextureDirectory]

\* lines 386-393 with the default shader pair replaced by the deferred one
MutantDefaultMaterial(id, materialName) ==
    [id |-> id, name |-> materialName,
     technique |-> "fox3DDF_Blin", shader |-> "fox3ddf_blin",
     textures |-> <<>>, mtl_twosided |-> FALSE, mtl_alphablend |-> FALSE,
     parameters |-> <<>>]

\* lines 386-396: the instance of a material no descriptor declares
DefaultMaterial(id, materialName) ==
    [id |-> id, name |-> materialName,
     technique |-> "fox3DFW_ConstantSRGB_NDR_Solid",
     shader |-> "fox3dfw_constant_srgb_ndr_solid",
     textures |-> <<>>, mtl_twosided |-> FALSE, mtl_alphablend |-> FALSE,
     parameters |-> <<>>]

\* lines 300-398: the instance of one source material
MaterialInstance(id, materialName, mtlMaterials, modelType, modelCategory) ==
    IF materialName \in DOMAIN mtlMaterials
    THEN LET materialElement == mtlMaterials[materialName]
             ts == TechniqueAndShader(GetAttr(materialElement.shader, ""))
             diffuseMapSampler == DiffuseMapSampler(materialElement.samplers)
         IN  [id             |-> id,
              name           |-> materialName,
              technique      |-> ts.technique,
              shader         |-> ts.shader,
              mtl_twosided   |-> StateFlag(materialElement.states, "twosided", FALSE),
              mtl_alphablend |-> StateFlag(materialElement.states, "alphablend", FALSE),
              textures       |->
                  IF diffuseMapSampler /= None
                  THEN <<<<"Base_Tex_SRGB",
                           ResolveTexture(GetAttr(diffuseMapSampler.path, ""),
                                          materialName, modelType, modelCategory)>>>>
                  ELSE <<>>,
              parameters     |-> <<>>]
    ELSE DefaultMaterial(id, materialName)

\* lines 299-398 skipping a source material whose name was already converted
MutantMaterialsOncePerName(model, sourceDirectory, modelType, modelCategory, fs, alloc) ==
    LET mtlMaterials == ParseMtlFiles(MtlFiles(fs, sourceDirectory), <<>>)
        all == [k \in 1..Len(model.materials) |->
                   MaterialInstance(<<alloc, k>>, model.materials[k], mtlMaterials,
                                    modelType, modelCategory)]
        kept == {k \in DOMAIN all : \A j \in 1..(k - 1) : all[j].name /= all[k].name}
    IN  SelectSeq(all, LAMBDA mat : mat.id[2] \in kept)

\* convertMaterials(model, sourceDirectory, modelType, modelCategory), reading
\* the directory from fs; model.materials is the sequence of the mapping's
\* values in insertion order
convertMaterials(model, sourceDirectory, modelType, modelCategory, fs, alloc) ==
    LET mtlMaterials == ParseMtlFiles(MtlFiles(fs, sourceDirectory), <<>>)
    IN  [k \in 1..Len(model.materials) |->
            MaterialInstance(<<alloc, k>>, model.materials[k], mtlMaterials,
                             modelType, modelCategory)]

(***************************************************************************)
(* convertMeshGeometry, convertMesh, convertMeshes                         *)
(*                                                                         *)
(* A source mesh is [vertexFields, vertices, faces, boneGroup, material]:  *)
(* boneGroup the sequence of the model bones (positions in model.bones) of *)
(* modelMesh.boneGroup.bones, a face three positions in vertices, a        *)
(* vertex's boneMapping the items of its dict, <<boneIndex, weight>> with  *)
(* boneIndex counted from 0 as in the source.  A dict of the target is the *)
(* sequence of its items in insertion order.                               *)
(***************************************************************************)
\* d[key] = value on a dict: a present key keeps its place
RECURSIVE DictSet(_, _, _)
DictSet(d, key, value) ==
    IF d = <<>> THEN <<<<key, value>>>>
    ELSE IF Head(d)[1] = key THEN <<<<key, value>>>> \o Tail(d)
    ELSE <<Head(d)>> \o DictSet(Tail(d), key, value)

DictKeys(d) == {d[i][1] : i \in DOMAIN d}

\* lines 52-57: the target boneMapping from the items of the source one
RECURSIVE ConvertBoneMapping(_, _, _, _)
ConvertBoneMapping(items, boneGroup, modelFmdlBones, boneMapping) ==
    IF items = <<>> THEN boneMapping
    ELSE LET boneIndex == Head(items)[1]
             weight == Head(items)[2]
             modelBone == boneGroup[boneIndex + 1]
             fmdlBone == modelFmdlBones[modelBone]
         IN  ConvertBoneMapping(Tail(items), boneGroup, modelFmdlBones,
                                DictSet(boneMapping, fmdlBone, weight))

\* lines 18-59: one target vertex
ConvertVertex(modelVertex, modelMesh, modelFmdlBones) ==
    [position    |-> modelVertex.position,
     normal      |-> IF modelMesh.vertexFields.hasNormal
                     THEN modelVertex.normal \o <<1>> ELSE None,
     tangent     |-> IF modelMesh.vertexFields.hasTangent
                     THEN modelVertex.tangent \o <<1>> ELSE None,
     uv          |-> modelVertex.uv,
     color       |-> IF modelMesh.vertexFields.hasColor
                     THEN modelVertex.color ELSE None,
     boneMapping |-> IF modelMesh.vertexFields.hasBoneMapping
                     THEN ConvertBoneMapping(modelVertex.boneMapping,
                              modelMesh.boneGroup, modelFmdlBones, <<>>)
                     ELSE None]

\* convertMeshGeometry with the faces copied in source order
MutantGeometryKeepWinding(modelMesh, modelFmdlBones) ==
    [vertices |-> [v \in DOMAIN modelMesh.vertices |->
                      ConvertVertex(modelMesh.vertices[v], modelMesh, modelFmdlBones)],
     faces    |-> modelMesh.faces]

\* convertMeshGeometry(modelMesh, modelFmdlBones): (fmdlVertices, fmdlFaces); a
\* target vertex is its position in fmdlVertices
convertMeshGeometry(modelMesh, modelFmdlBones) ==
    [vertices |-> [v \in DOMAIN modelMesh.vertices |->
                      ConvertVertex(modelMesh.vertices[v], modelMesh, modelFmdlBones)],
     faces    |-> [f \in DOMAIN modelMesh.faces |->
                      <<modelMesh.faces[f][3], modelMesh.faces[f][2],
                        modelMesh.faces[f][1]>>]]

\* the lookups of lines 54, 56, 66-68 and 97 that raise (IndexError, KeyError)
convertMeshRaises(modelMesh, modelFmdlBones) ==
    \/ /\ modelMesh.vertexFields.hasBoneMapping
       /\ \E v \in DOMAIN modelMesh.vertices :
              \E i \in DOMAIN modelMesh.vertices[v].boneMapping :
                  LET boneIndex == modelMesh.vertices[v].boneMapping[i][1]
                  IN  \/ boneIndex + 1 \notin DOMAIN modelMesh.boneGroup
                      \/ modelMesh.boneGroup[boneIndex + 1] \notin DOMAIN modelFmdlBones
    \/ \E f \in DOMAIN modelMesh.faces :
           \E c \in 1..3 : modelMesh.faces[f][c] \notin DOMAIN modelMesh.vertices
    \/ \E b \in DOMAIN modelMesh.boneGroup :
           modelMesh.boneGroup[b] \notin DOMAIN modelFmdlBones

\* lines 101-107 without the fallback of lines 110-111
MutantFindWithoutFallback(materialName, materialInstances) ==
    LET hits == IF materialName /= NoneStr /\ materialName /= ""
                THEN {i \in DOMAIN materialInstances :
                          materialInstances[i].name = materialName}
                ELSE {}
    IN  IF hits /= {} THEN materialInstances[MinOf(hits)] ELSE None

\* lines 101-111: the instance named like the mesh's material, else the first
FindMaterialInstance(materialName, materialInstances) ==
    LET hits == IF materialName /= NoneStr /\ materialName /= ""
                THEN {i \in DOMAIN materialInstances :
                          materialInstances[i].name = materialName}
                ELSE {}
    IN  IF hits /= {} THEN materialInstances[MinOf(hits)]
        ELSE IF Len(materialInstances) > 0 THEN materialInstances[1]
        ELSE None

\* lines 114-165 with the two-sided deferred values swapped with the one-sided
MutantFlagsSwapped(materialInstance) ==
    IF materialInstance /= None
    THEN LET isDeferred == Contains(Lower(materialInstance.shader), "3ddf")
             isForward == Contains(Lower(materialInstance.shader), "3dfw")
             twosided == materialInstance.mtl_twosided
             alphablend == materialInstance.mtl_alphablend
         IN  IF isDeferred
             THEN [alphaFlags  |-> IF alphablend
                                   THEN (IF twosided THEN 128 ELSE 160)
                                   ELSE (IF twosided THEN 0 ELSE 32),
                   shadowFlags |-> 0]
             ELSE IF isForward
             THEN [alphaFlags |-> IF twosided THEN 48 ELSE 16, shadowFlags |-> 4]
             ELSE [alphaFlags |-> 0, shadowFlags |-> 1]
    ELSE [alphaFlags |-> 0, shadowFlags |-> 1]

\* lines 114-165: alphaFlags and shadowFlags from the resolved material
AlphaShadowFlags(materialInstance) ==
    IF materialInstance /= None
    THEN LET isDeferred == Contains(Lower(materialInstance.shader), "3ddf")
             isForward == Contains(Lower(materialInstance.shader), "3dfw")
             twosided == materialInstance.mtl_twosided
             alphablend == materialInstance.mtl_alphablend
         IN  IF isDeferred
             THEN [alphaFlags  |-> IF alphablend
                                   THEN (IF twosided THEN 160 ELSE 128)
                                   ELSE (IF twosided THEN 32 ELSE 0),
                   shadowFlags |-> 0]
             ELSE IF isForward
             THEN [alphaFlags |-> IF twosided THEN 48 ELSE 16, shadowFlags |-> 4]
             ELSE [alphaFlags |-> 0, shadowFlags |-> 1]
    ELSE [alphaFlags |-> 0, shadowFlags |-> 1]

BoundingBox(min, max) == [min |-> min, max |-> max]

OriginBox == BoundingBox(<<0, 0, 0, 1>>, <<0, 0, 0, 1>>)

\* the box of a non-empty collection of positions, w = 1.0
BoxOfPositions(positions) ==
    BoundingBox(<<MinOf({p[1] : p \in positions}), MinOf({p[2] : p \in positions}),
                  MinOf({p[3] : p \in positions}), 1>>,
                <<MaxOf({p[1] : p \in positions}), MaxOf({p[2] : p \in positions}),
                  MaxOf({p[3] : p \in positions}), 1>>)

\* lines 168-187 taking the box of the first vertex alone
MutantBoxOfFirstVertex(vertices) ==
    IF Len(vertices) > 0
    THEN BoxOfPositions({vertices[1].position})
    ELSE OriginBox

\* lines 168-187: the mesh's bounding box
MeshBoundingBox(vertices) ==
    IF Len(vertices) > 0
    THEN BoxOfPositions({vertices[v].position : v \in DOMAIN vertices})
    ELSE OriginBox

\* lines 190-193 without the shader test of line 192
MutantHeadersAnyMaterial(materialInstance) ==
    IF materialInstance /= None THEN {"Has-Antiblur-Meshes"} ELSE {}

\* lines 190-193: the extension headers of the new mesh
ExtensionHeaders(materialInstance) ==
    IF materialInstance /= None
       /\ Lower(materialInstance.shader) = "fox3dfw_constant_srgb_ndr_solid"
    THEN {"Has-Antiblur-Meshes"} ELSE {}

\* convertMesh(modelMesh, modelFmdlBones, materialInstances); id names the new
\* Mesh object
convertMesh(modelMesh, modelFmdlBones, materialInstances, id) ==
    LET geometry == convertMeshGeometry(modelMesh, modelFmdlBones)
        materialInstance == FindMaterialInstance(modelMesh.material, materialInstances)
        flags == AlphaShadowFlags(materialInstance)
    IN  [id               |-> id,
         vertexFields     |->
             [hasNormal       |-> modelMesh.vertexFields.hasNormal,
              hasTangent      |-> modelMesh.vertexFields.hasTangent,
              hasBitangent    |-> FALSE,
              hasColor        |-> modelMesh.vertexFields.hasColor,
              hasBoneMapping  |-> modelMesh.vertexFields.hasBoneMapping,
              uvCount         |-> modelMesh.vertexFields.uvCount,
              highPrecisionUv |-> FALSE],
         vertices         |-> geometry.vertices,
         faces            |-> geometry.faces,
         boneGroup        |-> [b \in DOMAIN modelMesh.boneGroup |->
                                  modelFmdlBones[modelMesh.boneGroup[b]]],
         materialInstance |-> materialInstance,
         alphaFlags       |-> flags.alphaFlags,
         shadowFlags      |-> flags.shadowFlags,
         boundingBox      |-> MeshBoundingBox(geometry.vertices),
         extensionHeaders |-> ExtensionHeaders(materialInstance)]

\* convertMeshes(model, modelFmdlBones, materialInstances)
convertMeshes(model, modelFmdlBones, materialInstances, alloc) ==
    [m \in DOMAIN model.meshes |->
        convertMesh(model.meshes[m], modelFmdlBones, materialInstances, <<alloc, m>>)]

(***************************************************************************)
(* createMeshGroups                                                        *)
(*                                                                         *)
(* model.meshGroups is the sequence of the source groups' names.  A target *)
(* group holds its meshes by reference (the Mesh ids) and its children as  *)
(* groups.                                                                 *)
(***************************************************************************)
NewMeshGroup(name, meshes) ==
    [name |-> name, visible |-> TRUE, parent |-> None, children |-> <<>>,
     meshes |-> meshes, boundingBox |-> None]

\* createMeshGroups giving every source group the first mesh
MutantGroupsFirstMesh(model, fmdlMeshes) ==
    IF Len(model.meshGroups) > 0
    THEN [g \in DOMAIN model.meshGroups |->
             NewMeshGroup(model.meshGroups[g],
                          IF Len(fmdlMeshes) > 0 THEN <<fmdlMeshes[1].id>> ELSE <<>>)]
    ELSE [m \in DOMAIN fmdlMeshes |->
             NewMeshGroup("mesh_" \o ToString(m - 1), <<fmdlMeshes[1].id>>)]

\* createMeshGroups(model, fmdlMeshes); enumerate() counts from 0
createMeshGroups(model, fmdlMeshes) ==
    IF Len(model.meshGroups) > 0
    THEN [g \in DOMAIN model.meshGroups |->
             NewMeshGroup(model.meshGroups[g],
                          IF g - 1 < Len(fmdlMeshes) THEN <<fmdlMeshes[g].id>> ELSE <<>>)]
    ELSE [m \in DOMAIN fmdlMeshes |->
             NewMeshGroup("mesh_" \o ToString(m - 1), <<fmdlMeshes[m].id>>)]

(***************************************************************************)
(* calculateBoundingBoxes                                                  *)
(***************************************************************************)
\* lines 440-448: the positions of the vertices whose boneMapping has the bone
BoneVertexPositions(bone, meshes) ==
    UNION {{meshes[m].vertices[v].position :
                v \in {w \in DOMAIN meshes[m].vertices :
                           bone.id \in DictKeys(meshes[m].vertices[w].boneMapping)}} :
           m \in {n \in DOMAIN meshes : meshes[n].vertexFields.hasBoneMapping}}

\* calculateBoneBoundingBoxes(bones, meshes): the bones with their boxes set
calculateBoneBoundingBoxes(bones, meshes) ==
    [b \in DOMAIN bones |->
        LET vertexPositions == BoneVertexPositions(bones[b], meshes)
        IN  [bones[b] EXCEPT !.boundingBox =
                IF vertexPositions = {} THEN OriginBox
                ELSE BoxOfPositions(vertexPositions)]]

\* line 448: a vertex maps a bone that is not among bones (KeyError)
calculateBoneBoundingBoxesRaises(bones, meshes) ==
    \E m \in DOMAIN meshes :
        /\ meshes[m].vertexFields.hasBoneMapping
        /\ \E v \in DOMAIN meshes[m].vertices :
               \E key \in DictKeys(meshes[m].vertices[v].boneMapping) :
                   key \notin {bones[b].id : b \in DOMAIN bones}

\* calculateMeshBoundingBox(mesh): the box, or None for a mesh without vertices
calculateMeshBoundingBox(mesh) ==
    IF Len(mesh.vertices) = 0 THEN None
    ELSE BoxOfPositions({mesh.vertices[v].position : v \in DOMAIN mesh.vertices})

MeshById(meshes, id) == CHOOSE mesh \in Range(meshes) : mesh.id = id

\* the union of a non-empty sequence of boxes (lines 518-531)
UnionOfBoxes(boundingBoxes) ==
    LET mins == {boundingBoxes[i].min : i \in DOMAIN boundingBoxes}
        maxs == {boundingBoxes[i].max : i \in DOMAIN boundingBoxes}
    IN  BoundingBox(<<MinOf({p[1] : p \in mins}), MinOf({p[2] : p \in mins}),
                      MinOf({p[3] : p \in mins}), 1>>,
                    <<MaxOf({p[1] : p \in maxs}), MaxOf({p[2] : p \in maxs}),
                      MaxOf({p[3] : p \in maxs}), 1>>)

\* calculateMeshGroupBoundingBox(meshGroup): [group |-> the group with its box
\* and its descendants' boxes set, box |-> what the call returns]
RECURSIVE calculateMeshGroupBoundingBox(_, _)
calculateMeshGroupBoundingBox(meshGroup, meshes) ==
    LET meshBoxes == [i \in DOMAIN meshGroup.meshes |->
                         calculateMeshBoundingBox(MeshById(meshes, meshGroup.meshes[i]))]
        children == [c \in DOMAIN meshGroup.children |->
                        calculateMeshGroupBoundingBox(meshGroup.children[c], meshes)]
        boundingBoxes ==
            SelectSeq(meshBoxes, LAMBDA bbox : bbox /= None)
            \o SelectSeq([c \in DOMAIN children |-> children[c].box],
                         LAMBDA bbox : bbox /= None)
        updated == [meshGroup EXCEPT
                        !.children = [c \in DOMAIN children |-> children[c].group]]
    IN  IF Len(boundingBoxes) = 0
        THEN [group |-> [updated EXCEPT !.boundingBox = OriginBox], box |-> None]
        ELSE [group |-> [updated EXCEPT !.boundingBox = UnionOfBoxes(boundingBoxes)],
              box   |-> UnionOfBoxes(boundingBoxes)]

\* lines 540-542 stopping after the first group
MutantFirstGroupBoxOnly(meshGroups, meshes) ==
    [g \in DOMAIN meshGroups |->
        IF g = 1 /\ meshGroups[g].parent = None
        THEN calculateMeshGroupBoundingBox(meshGroups[g], meshes).group
        ELSE meshGroups[g]]

\* lines 540-542: the root groups get their boxes
RootGroupBoxes(meshGroups, meshes) ==
    [g \in DOMAIN meshGroups |->
        IF meshGroups[g].parent = None
        THEN calculateMeshGroupBoundingBox(meshGroups[g], meshes).group
        ELSE meshGroups[g]]

(***************************************************************************)
(* convertModel                                                            *)
(*                                                                         *)
(* An FmdlFile is [bones, materialInstances, meshes, meshGroups].          *)
(***************************************************************************)
\* what a call that raised returns
Raised == [raised |-> TRUE]

\* FmdlFile.FmdlFile(): the empty target model
EmptyFmdlFile ==
    [bones |-> <<>>, materialInstances |-> <<>>, meshes |-> <<>>, meshGroups |-> <<>>]

\* a mesh of the model makes convertMeshes raise
convertModelRaises(model) ==
    \E m \in DOMAIN model.meshes :
        convertMeshRaises(model.meshes[m], convertBones(model.bones, 0).modelFmdlBones)

\* convertModel(model, sourceDirectory, modelType, modelCategory); fs is the
\* file system it reads, alloc names the objects it creates
convertModel(model, sourceDirectory, modelType, modelCategory, fs, alloc) ==
    LET materialInstances == convertMaterials(model, sourceDirectory, modelType,
                                              modelCategory, fs, alloc)
        converted == convertBones(model.bones, alloc)
        meshes == convertMeshes(model, converted.modelFmdlBones, materialInstances, alloc)
        meshGroups == createMeshGroups(model, meshes)
    IN  [bones             |-> calculateBoneBoundingBoxes(converted.fmdlBones, meshes),
         materialInstances |-> materialInstances,
         meshes            |-> meshes,
         meshGroups        |-> RootGroupBoxes(meshGroups, meshes)]

(***************************************************************************)
(* combineBootsModels                                                      *)
(*                                                                         *)
(* fs.models maps a path to the model loadModel returns for it.            *)
(* modelMetadata maps some of the paths to a dict with some of the keys    *)
(* "type" and "category".                                                  *)
(***************************************************************************)
\* dict.get(key, default)
DictGet(d, key, default) == IF key \in DOMAIN d THEN d[key] ELSE default

\* os.path.dirname: what precedes the last "/"
Dirname(path) ==
    LET slashes == {i \in 1..Len(path) : CharAt(path, i) = "/"}
    IN  IF slashes = {} THEN "" ELSE SubSeq(path, 1, MaxOf(slashes) - 1)

\* loadModel(filename): the loader's normalized model
loadModel(fs, filename) == fs.models[filename]

\* lines 602-608 converting in the file's own directory, as the merge does
MutantSingleOwnDirectory(modelFiles, sourceDirectory, modelMetadata, fs) ==
    LET metadata == DictGet(modelMetadata, modelFiles[1], <<>>)
    IN  convertModel(loadModel(fs, modelFiles[1]), Dirname(modelFiles[1]),
                     DictGet(metadata, "type", NoneStr),
                     DictGet(metadata, "category", "boots"), fs, 1)

\* lines 602-608: the conversion of a single file
ConvertSingle(modelFiles, sourceDirectory, modelMetadata, fs) ==
    LET metadata == DictGet(modelMetadata, modelFiles[1], <<>>)
    IN  convertModel(loadModel(fs, modelFiles[1]), sourceDirectory,
                     DictGet(metadata, "type", NoneStr),
                     DictGet(metadata, "category", "boots"), fs, 1)

\* lines 611-620: every file loaded and converted, in its own directory
ConvertAll(modelFiles, modelMetadata, fs) ==
    [i \in DOMAIN modelFiles |->
        LET metadata == DictGet(modelMetadata, modelFiles[i], <<>>)
        IN  convertModel(loadModel(fs, modelFiles[i]), Dirname(modelFiles[i]),
                         DictGet(metadata, "type", NoneStr),
                         DictGet(metadata, "category", "boots"), fs, i)]

\* lines 632-640 keeping every bone (the name test of line 633 dropped)
RECURSIVE MutantMergeKeepAll(_, _, _, _)
MutantMergeKeepAll(bones, k, mergedBones, boneMapping) ==
    IF k > Len(bones) THEN [mergedBones |-> mergedBones, boneMapping |-> boneMapping]
    ELSE MutantMergeKeepAll(bones, k + 1, Append(mergedBones, bones[k]),
                            (bones[k].id :> bones[k].id) @@ boneMapping)

\* lines 632-640: the bones of one file, bone k onwards, into the merged list;
\* mergedBonesDict is the merged list looked up by name
RECURSIVE MergeFileBones(_, _, _, _)
MergeFileBones(bones, k, mergedBones, boneMapping) ==
    IF k > Len(bones) THEN [mergedBones |-> mergedBones, boneMapping |-> boneMapping]
    ELSE LET bone == bones[k]
             mergedNames == [j \in DOMAIN mergedBones |-> mergedBones[j].name]
         IN  IF bone.name \in Range(mergedNames)
             THEN MergeFileBones(bones, k + 1, mergedBones,
                      (bone.id :> mergedBones[IndexOf(mergedNames, bone.name)].id)
                          @@ boneMapping)
             ELSE MergeFileBones(bones, k + 1, Append(mergedBones, bone),
                      (bone.id :> bone.id) @@ boneMapping)

\* lines 626-641: [mergedBones, boneMappings] over the files, file i onwards
RECURSIVE MergeBones(_, _, _, _)
MergeBones(fmdlFiles, i, mergedBones, boneMappings) ==
    IF i > Len(fmdlFiles)
    THEN [mergedBones |-> mergedBones, boneMappings |-> boneMappings]
    ELSE LET merged == MergeFileBones(fmdlFiles[i].bones, 1, mergedBones, <<>>)
         IN  MergeBones(fmdlFiles, i + 1, merged.mergedBones,
                        Append(boneMappings, merged.boneMapping))

\* lines 665-668 storing every weight under the first item's merged bone
RECURSIVE MutantRewriteUnderFirstBone(_, _, _)
MutantRewriteUnderFirstBone(items, boneMapping, newBoneMapping) ==
    IF items = <<>> THEN newBoneMapping
    ELSE MutantRewriteUnderFirstBone(Tail(items), boneMapping,
             DictSet(newBoneMapping,
                     IF newBoneMapping = <<>> THEN boneMapping[Head(items)[1]]
                     ELSE newBoneMapping[1][1],
                     Head(items)[2]))

\* lines 665-668: the vertex's boneMapping through the file's bone mapping
RECURSIVE RewriteBoneMapping(_, _, _)
RewriteBoneMapping(items, boneMapping, newBoneMapping) ==
    IF items = <<>> THEN newBoneMapping
    ELSE RewriteBoneMapping(Tail(items), boneMapping,
             DictSet(newBoneMapping, boneMapping[Head(items)[1]], Head(items)[2]))

\* lines 655-668 leaving the vertices' boneMapping as converted
MutantRewriteGroupOnly(mesh, boneMapping) ==
    [mesh EXCEPT !.boneGroup = [b \in DOMAIN mesh.boneGroup |->
                                   boneMapping[mesh.boneGroup[b]]]]

\* lines 655-668: one mesh with its bone references updated
RewriteMesh(mesh, boneMapping) ==
    [mesh EXCEPT
        !.boneGroup = [b \in DOMAIN mesh.boneGroup |-> boneMapping[mesh.boneGroup[b]]],
        !.vertices  =
            IF mesh.vertexFields.hasBoneMapping
            THEN [v \in DOMAIN mesh.vertices |->
                     IF mesh.vertices[v].boneMapping /= <<>>
                     THEN [mesh.vertices[v] EXCEPT !.boneMapping =
                              RewriteBoneMapping(@, boneMapping, <<>>)]
                     ELSE mesh.vertices[v]]
            ELSE mesh.vertices]

\* list.extend over the files: the concatenation of one field
RECURSIVE Concatenate(_, _)
Concatenate(lists, i) ==
    IF i > Len(lists) THEN <<>> ELSE lists[i] \o Concatenate(lists, i + 1)

\* lines 646-648 dropping an instance whose name was already merged
RECURSIVE MutantMaterialsDedup(_)
MutantMaterialsDedup(fmdlFiles) ==
    IF fmdlFiles = <<>> THEN <<>>
    ELSE LET front == MutantMaterialsDedup(SubSeq(fmdlFiles, 1, Len(fmdlFiles) - 1))
         IN  front \o SelectSeq(fmdlFiles[Len(fmdlFiles)].materialInstances,
                 LAMBDA mat : \A i \in DOMAIN front : front[i].name /= mat.name)

\* lines 646-648: the material instances of all the files, all kept
MergeMaterialInstances(fmdlFiles) ==
    Concatenate([i \in DOMAIN fmdlFiles |-> fmdlFiles[i].materialInstances], 1)

\* lines 610-680 without step 7: the merged bones keep the boxes computed
\* when their own file was converted
MutantMergeKeepBoneBoxes(modelFiles, modelMetadata, fs) ==
    LET fmdlFiles == ConvertAll(modelFiles, modelMetadata, fs)
        merged == MergeBones(fmdlFiles, 1, <<>>, <<>>)
        meshes == Concatenate(
                      [i \in DOMAIN fmdlFiles |->
                          [m \in DOMAIN fmdlFiles[i].meshes |->
                              RewriteMesh(fmdlFiles[i].meshes[m],
                                          merged.boneMappings[i])]], 1)
        meshGroups == Concatenate(
                          [i \in DOMAIN fmdlFiles |-> fmdlFiles[i].meshGroups], 1)
    IN  [bones             |-> merged.mergedBones,
         materialInstances |-> MergeMaterialInstances(fmdlFiles),
         meshes            |-> meshes,
         meshGroups        |-> RootGroupBoxes(meshGroups, meshes)]

\* lines 610-680: the merge of two or more files
MergeModels(modelFiles, modelMetadata, fs) ==
    LET fmdlFiles == ConvertAll(modelFiles, modelMetadata, fs)
        merged == MergeBones(fmdlFiles, 1, <<>>, <<>>)
        meshes == Concatenate(
                      [i \in DOMAIN fmdlFiles |->
                          [m \in DOMAIN fmdlFiles[i].meshes |->
                              RewriteMesh(fmdlFiles[i].meshes[m],
                                          merged.boneMappings[i])]], 1)
        meshGroups == Concatenate(
                          [i \in DOMAIN fmdlFiles |-> fmdlFiles[i].meshGroups], 1)
    IN  [bones             |-> calculateBoneBoundingBoxes(merged.mergedBones, meshes),
         materialInstances |-> MergeMaterialInstances(fmdlFiles),
         meshes            |-> meshes,
         meshGroups        |-> RootGroupBoxes(meshGroups, meshes)]

\* combineBootsModels with the first two cases folded into one test
\* (len(modelFiles) <= 1): modelFiles[0] of an empty list raises
MutantCombineEmptyAsSingle(modelFiles, sourceDirectory, modelMetadata, fs) ==
    IF Len(modelFiles) = 0 THEN Raised
    ELSE IF Len(modelFiles) = 1
    THEN ConvertSingle(modelFiles, sourceDirectory, modelMetadata, fs)
    ELSE MergeModels(modelFiles, modelMetadata, fs)

\* combineBootsModels(modelFiles, sourceDirectory, modelMetadata), reading fs
combineBootsModels(modelFiles, sourceDirectory, modelMetadata, fs) ==
    IF Len(modelFiles) = 0 THEN EmptyFmdlFile
    ELSE IF Len(modelFiles) = 1
    THEN ConvertSingle(modelFiles, sourceDirectory, modelMetadata, fs)
    ELSE MergeModels(modelFiles, modelMetadata, fs)

\* the files combineBootsModels hands to loadModel, in order: none for an empty
\* list, and none after the first whose conversion raises
combineLoads(modelFiles, fs) ==
    LET raising == {i \in DOMAIN modelFiles :
                        convertModelRaises(loadModel(fs, modelFiles[i]))}
    IN  IF Len(modelFiles) = 0 THEN <<>>
        ELSE IF raising = {} THEN modelFiles
        ELSE SubSeq(modelFiles, 1, MinOf(raising))

combineBootsModelsRaises(modelFiles, fs) ==
    \E i \in DOMAIN modelFiles : convertModelRaises(loadModel(fs, modelFiles[i]))

(***************************************************************************)
(* The bone converter on its own: every sequence of source bones           *)
(***************************************************************************)
BoneNames == {"Hips", "Spine", "Head", "toe"}

MaxBones == 3

InitBones ==
    /\ pc = "call"
    /\ call \in {[fn |-> "convertBones", modelBones |-> b] :
                    b \in SeqsUpTo(BoneNames, MaxBones)}
    /\ ret = None
    /\ loaded = <<>>
    /\ disk = EmptyDisk

CallConvertBones ==
    /\ pc = "call"
    /\ call.fn = "convertBones"
    /\ ret' = convertBones(call.modelBones, 1)
    /\ pc' = "return"
    /\ UNCHANGED <<call, loaded, disk>>

NextBones == CallConvertBones

SpecBones == InitBones /\ [][NextBones]_vars

\* C1: convertBones returns bones with pairwise distinct names, each the name
\* of a source bone, in the order of first occurrence of the names in the source
FirstOccurrences(names) ==
    {i \in DOMAIN names : \A j \in 1..(i - 1) : names[j] /= names[i]}

C1_BonesUniqueInFirstOccurrenceOrder ==
    (pc = "return" /\ call.fn = "convertBones") =>
        LET src == call.modelBones
            out == ret.fmdlBones
        IN  /\ \A i, j \in DOMAIN out : i /= j => out[i].name /= out[j].name
            /\ \A i \in DOMAIN out : out[i].name \in Range(src)
            /\ Len(out) = Cardinality(FirstOccurrences(src))
            /\ \A i, j \in DOMAIN out :
                   i < j => LET fi == CHOOSE a \in FirstOccurrences(src) :
                                          src[a] = out[i].name
                                fj == CHOOSE a \in FirstOccurrences(src) :
                                          src[a] = out[j].name
                            IN  fi < fj

\* a source with a repeated name, separated by another name, was converted
C1_Witness ==
    /\ pc = "return"
    /\ call.fn = "convertBones"
    /\ \E i, j \in DOMAIN call.modelBones :
           i + 1 < j /\ call.modelBones[i] = call.modelBones[j]
    /\ Len(ret.fmdlBones) = 2

(***************************************************************************)
(* The material resolver on its own: source material names against a       *)
(* directory of descriptor files and the caller's hints                    *)
(***************************************************************************)
MaterialNames == {"Face_skin", "boots", "unlisted", "HAIR_top", "teeth_Oral"}

MaxMaterials == 2

MtlFile(filename, parses, materials) ==
    [filename |-> filename, parses |-> parses, materials |-> materials]

MtlElement(name, shader, states, samplers) ==
    [name |-> name, shader |-> shader, states |-> states, samplers |-> samplers]

State(name, value) == [name |-> name, value |-> value]

Sampler(name, path) == [name |-> name, path |-> path]

SamplerLists ==
    { <<>>,
      <<Sampler("DiffuseMap", "./tex/skin.dds")>>,
      <<Sampler("NormalMap", "n.dds"),
        Sampler("DiffuseMap", "model/character/uniform/common/c.dds"),
        Sampler("DiffuseMap", "late.dds")>>,
      <<Sampler("DiffuseMap", NoneStr)>>,
      <<Sampler("SpecularMap", "s.dds")>> }

StateLists ==
    { <<>>,
      <<State("twosided", "1")>>,
      <<State("alphablend", "1"), State("twosided", "0")>>,
      <<State("twosided", "1"), State("alphablend", "1"), State("zwrite", "1")>>,
      <<State("twosided", "1"), State("twosided", NoneStr)>> }

\* the listings of the source directory the resolver is run against
Listings ==
    \* one descriptor file declaring one material
    { <<MtlFile("a.mtl", TRUE, <<MtlElement(n, sh, <<>>, sm)>>)>> :
          n \in {"Face_skin", "boots"},
          sh \in {"Basic_C", "Shadeless", "Basic_CNSR", "Phong", NoneStr},
          sm \in SamplerLists }
    \cup
    { <<MtlFile("a.mtl", TRUE, <<MtlElement("Face_skin", "Basic_C", st,
                                            <<Sampler("DiffuseMap", "skin.dds")>>)>>)>> :
          st \in StateLists }
    \cup
    \* two files declaring the same material, the second parsing or not, and a
    \* file that is no descriptor
    { <<MtlFile("A.MTL", TRUE,
                <<MtlElement("boots", "Basic_C", <<State("twosided", "1")>>,
                             <<Sampler("DiffuseMap", "./first.dds")>>),
                  MtlElement(NoneStr, "Basic_C", <<>>, <<>>)>>),
        MtlFile(second, parses,
                <<MtlElement("boots", "Shadeless", <<>>, <<>>),
                  MtlElement("Face_skin", "Basic_C", <<>>,
                             <<Sampler("DiffuseMap", "second.dds")>>)>>)>> :
          second \in {"b.mtl", "b.mtl.bak"}, parses \in BOOLEAN }
    \cup
    \* one file declaring a material twice
    { <<MtlFile("twice.mtl", TRUE,
                <<MtlElement("boots", "Basic_C", <<State("alphablend", "1")>>,
                             <<Sampler("DiffuseMap", "early.dds")>>),
                  MtlElement("boots", "Shadeless", <<State("twosided", "1")>>,
                             <<Sampler("DiffuseMap", "late.dds")>>)>>)>> }
    \cup
    \* materials whose names hold "hair" and "oral" in other cases
    { <<MtlFile("h.mtl", TRUE,
                <<MtlElement("HAIR_top", "Shadeless", <<>>,
                             <<Sampler("DiffuseMap", "./hair.dds")>>),
                  MtlElement("teeth_Oral", "Basic_C", <<>>,
                             <<Sampler("DiffuseMap", "teeth.dds")>>)>>)>> }
    \cup {<<>>}

ModelTypes == {NoneStr, "Uniform", "parts"}

ModelCategories == {NoneStr, "faces", "boots", "gloves"}

\* a source model with nothing but materials
MaterialsOnlyModel(materials) ==
    [bones |-> <<>>, meshes |-> <<>>, materials |-> materials, meshGroups |-> <<>>]

InitMaterials ==
    /\ pc = "call"
    /\ \E listing \in Listings, there \in BOOLEAN :
           disk = [dirs   |-> IF there THEN ("src" :> listing) ELSE <<>>,
                   models |-> <<>>]
    /\ call \in [fn : {"convertMaterials"},
                 model : {MaterialsOnlyModel(m) :
                              m \in SeqsUpTo(MaterialNames, MaxMaterials)},
                 sourceDirectory : {"src"},
                 modelType : ModelTypes,
                 modelCategory : ModelCategories]
    /\ ret = None
    /\ loaded = <<>>

CallConvertMaterials ==
    /\ pc = "call"
    /\ call.fn = "convertMaterials"
    /\ ret' = convertMaterials(call.model, call.sourceDirectory, call.modelType,
                               call.modelCategory, disk, 1)
    /\ pc' = "return"
    /\ UNCHANGED <<call, loaded, disk>>

NextMaterials == CallConvertMaterials

SpecMaterials == InitMaterials /\ [][NextMaterials]_vars

\* the descriptor files of the call's directory that parse
ParsedDescriptors ==
    IF call.sourceDirectory \in DOMAIN disk.dirs
    THEN {f \in Range(disk.dirs[call.sourceDirectory]) :
              f.parses /\ EndsWith(Lower(f.filename), ".mtl")}
    ELSE {}

\* the declarations of a material name in the parsed descriptor files
Declarations(materialName) ==
    {e \in UNION {Range(f.materials) : f \in ParsedDescriptors} :
         e.name = materialName}

PlaceholderTextures ==
    <<<<"Base_Tex_SRGB", [directory |-> "/Assets/pes16/model/character/uniform/texture/",
                          filename  |-> "u0123p1.ftex"]>>>>

\* C7: under the type hint "uniform", every instance built from a matching
\* descriptor carries the fixed placeholder texture, whatever sampler the
\* descriptor declares and also when it declares no DiffuseMap sampler
C7_UniformForcesPlaceholder ==
    (pc = "return" /\ call.fn = "convertMaterials"
        /\ Lower(call.modelType) = "uniform") =>
        \A k \in DOMAIN ret :
            Declarations(call.model.materials[k]) /= {} =>
                ret[k].textures = PlaceholderTextures

\* C8: a source material that no parsed descriptor declares still yields an
\* instance of that name with the default technique and shader, no texture,
\* both state flags false and no parameters, and every source material
\* yields an instance
C8_UndeclaredMaterialGetsDefaults ==
    (pc = "return" /\ call.fn = "convertMaterials") =>
        /\ Len(ret) = Len(call.model.materials)
        /\ \A k \in DOMAIN ret :
               Declarations(call.model.materials[k]) = {} =>
                   /\ ret[k].name = call.model.materials[k]
                   /\ ret[k].technique = "fox3DFW_ConstantSRGB_NDR_Solid"
                   /\ ret[k].shader = "fox3dfw_constant_srgb_ndr_solid"
                   /\ ret[k].textures = <<>>
                   /\ ~ret[k].mtl_twosided
                   /\ ~ret[k].mtl_alphablend
                   /\ ret[k].parameters = <<>>

\* an undeclared material was converted ahead of a declared one, which got
\* its descriptor's deferred shader
C8_Witness ==
    /\ pc = "return"
    /\ call.fn = "convertMaterials"
    /\ Len(ret) = 2
    /\ Declarations(call.model.materials[1]) = {}
    /\ Declarations(call.model.materials[2]) /= {}
    /\ ret[1].shader = "fox3dfw_constant_srgb_ndr_solid"
    /\ ret[2].shader = "fox3ddf_blin"

(***************************************************************************)
(* The mesh converter on its own: one source mesh against a bone map and   *)
(* a list of material instances                                            *)
(***************************************************************************)
Points == {<<0, 0, 0>>, <<1, 2, 3>>, <<-1, 0, 5>>}

MaxVertices == 3

\* shader ids as the material resolver and the target format write them
\* (lower case), and one of neither family
Shaders ==
    {"fox3ddf_blin", "fox3dfw_constant_srgb_ndr_solid", "pes3dfw_skin", "unknown_shader"}

Instance(id, name, shader, twosided, alphablend) ==
    [id |-> id, name |-> name, technique |-> "t_" \o shader, shader |-> shader,
     textures |-> <<>>, mtl_twosided |-> twosided, mtl_alphablend |-> alphablend,
     parameters |-> <<>>]

\* no instance, the mesh's own, or another one ahead of the mesh's own
MeshMaterialLists ==
    {<<>>}
    \cup {<<Instance(<<1, 1>>, "skin", sh, ts, ab)>> :
              sh \in Shaders, ts \in BOOLEAN, ab \in BOOLEAN}
    \cup {<<Instance(<<1, 1>>, "other", "fox3ddf_blin", FALSE, TRUE),
            Instance(<<1, 2>>, "skin", sh, ts, ab)>> :
              sh \in Shaders, ts \in BOOLEAN, ab \in BOOLEAN}
    \* two instances of one name
    \cup {<<Instance(<<1, 1>>, "other", "unknown_shader", FALSE, FALSE),
            Instance(<<1, 2>>, "skin", "fox3ddf_blin", TRUE, FALSE),
            Instance(<<1, 3>>, "skin", "pes3dfw_skin", FALSE, FALSE)>>}

\* the source bones of the mesh's model: the third shares the first's name
MeshModelBones == <<"Hips", "Spine", "Hips">>

SourceVertex(position, boneMapping) ==
    [position |-> position, normal |-> <<0, 0, 1>>, tangent |-> <<1, 0, 0>>,
     uv |-> <<<<0, 1>>>>, color |-> <<255, 255, 255, 255>>,
     boneMapping |-> boneMapping]

SourceMesh(positions, hasBoneMapping, boneGroup, boneMapping, material) ==
    [vertexFields |-> [hasNormal |-> TRUE, hasTangent |-> FALSE, hasColor |-> FALSE,
                       hasBoneMapping |-> hasBoneMapping, uvCount |-> 1],
     vertices     |-> [v \in DOMAIN positions |->
                          SourceVertex(positions[v], boneMapping)],
     faces        |-> IF Len(positions) >= 3 THEN <<<<1, 2, 3>>, <<2, 1, 3>>>> ELSE <<>>,
     boneGroup    |-> boneGroup,
     material     |-> material]

InitMesh ==
    /\ pc = "call"
    /\ call \in [fn : {"convertMesh"},
                 modelMesh : {SourceMesh(p, hbm, bg, bm, mat) :
                                  p \in SeqsUpTo(Points, MaxVertices),
                                  hbm \in BOOLEAN,
                                  bg \in {<<1, 2>>, <<1, 3>>},
                                  bm \in {<<>>, <<<<0, 3>>, <<1, 7>>>>},
                                  mat \in {"skin", "absent", NoneStr}},
                 modelFmdlBones : {convertBones(MeshModelBones, 1).modelFmdlBones},
                 materialInstances : MeshMaterialLists]
    /\ ret = None
    /\ loaded = <<>>
    /\ disk = EmptyDisk

CallConvertMesh ==
    /\ pc = "call"
    /\ call.fn = "convertMesh"
    /\ ~convertMeshRaises(call.modelMesh, call.modelFmdlBones)
    /\ ret' = convertMesh(call.modelMesh, call.modelFmdlBones,
                          call.materialInstances, <<1, 1>>)
    /\ pc' = "return"
    /\ UNCHANGED <<call, loaded, disk>>

NextMesh == CallConvertMesh

SpecMesh == InitMesh /\ [][NextMesh]_vars

\* C6: alphaFlags and shadowFlags of a converted mesh are the table's values
\* for its resolved material: deferred 0/32/128/160 with shadowFlags 0,
\* forward 16/48 by twosided alone with shadowFlags 4, otherwise 0 and 1
C6_FlagsFollowTable ==
    (pc = "return" /\ call.fn = "convertMesh" /\ ret.materialInstance /= None) =>
        LET m == ret.materialInstance
            ts == m.mtl_twosided
            ab == m.mtl_alphablend
            deferred == Contains(m.shader, "3ddf")
            forward == ~deferred /\ Contains(m.shader, "3dfw")
        IN  /\ deferred =>
                /\ ret.shadowFlags = 0
                /\ (~ts /\ ~ab) => ret.alphaFlags = 0
                /\ (ts /\ ~ab) => ret.alphaFlags = 32
                /\ (~ts /\ ab) => ret.alphaFlags = 128
                /\ (ts /\ ab) => ret.alphaFlags = 160
            /\ forward =>
                /\ ret.shadowFlags = 4
                /\ ~ts => ret.alphaFlags = 16
                /\ ts => ret.alphaFlags = 48
            /\ (~deferred /\ ~forward) =>
                /\ ret.alphaFlags = 0
                /\ ret.shadowFlags = 1

\* a mesh resolved to a two-sided deferred material without alpha blending
\* was converted to alphaFlags 32, shadowFlags 0
C6_Witness ==
    /\ pc = "return"
    /\ call.fn = "convertMesh"
    /\ ret.materialInstance /= None
    /\ ret.materialInstance.shader = "fox3ddf_blin"
    /\ ret.materialInstance.mtl_twosided
    /\ ~ret.materialInstance.mtl_alphablend
    /\ ret.alphaFlags = 32
    /\ ret.shadowFlags = 0

\* C9: in each of x, y, z the box's min is the smallest and its max the
\* largest coordinate over the mesh's vertex positions, w = 1; a mesh
\* without vertices has the box min = max = (0, 0, 0)
C9_MeshBoxIsMinMaxOfVertices ==
    (pc = "return" /\ call.fn = "convertMesh") =>
        LET vs == ret.vertices
            box == ret.boundingBox
        IN  /\ box.min[4] = 1 /\ box.max[4] = 1
            /\ Len(vs) = 0 =>
                   \A c \in 1..3 : box.min[c] = 0 /\ box.max[c] = 0
            /\ Len(vs) > 0 =>
                   \A c \in 1..3 :
                       /\ \A v \in DOMAIN vs : box.min[c] <= vs[v].position[c]
                                            /\ vs[v].position[c] <= box.max[c]
                       /\ \E v \in DOMAIN vs : vs[v].position[c] = box.min[c]
                       /\ \E v \in DOMAIN vs : vs[v].position[c] = box.max[c]
            /\ Len(vs) = Len(call.modelMesh.vertices)
            /\ \A v \in DOMAIN vs :
                   vs[v].position = call.modelMesh.vertices[v].position

\* the mesh with vertices (0,0,0), (1,2,3), (-1,0,5) got the box
\* min = (-1,0,0), max = (1,2,5)
C9_Witness ==
    /\ pc = "return"
    /\ call.fn = "convertMesh"
    /\ {ret.vertices[v].position : v \in DOMAIN ret.vertices} = Points
    /\ ret.boundingBox = [min |-> <<-1, 0, 0, 1>>, max |-> <<1, 2, 5, 1>>]

(***************************************************************************)
(* The whole engine: convertModel on one source model, and                 *)
(* combineBootsModels on a list of model files of one directory            *)
(***************************************************************************)
MaxFiles == 2

ModelBoneLists == {<<>>, <<"Hips">>, <<"Spine", "Hips">>, <<"toe", "Hips", "toe">>}

ModelShapes == {"none", "one", "two"}

\* "one": a skinned mesh over all the model's bones, a vertex per bone and a
\* vertex on all of them
MeshOverAllBones(n) ==
    [vertexFields |-> [hasNormal |-> FALSE, hasTangent |-> FALSE, hasColor |-> FALSE,
                       hasBoneMapping |-> TRUE, uvCount |-> 1],
     vertices     |-> [v \in 1..(n + 1) |->
                          SourceVertex(<<v, 2 * n, -v>>,
                              IF v <= n THEN <<<<v - 1, 10 + v>>>>
                              ELSE [i \in 1..n |-> <<n - i, i>>])],
     faces        |-> IF n >= 2 THEN <<<<1, 2, 3>>>> ELSE <<>>,
     boneGroup    |-> [b \in 1..n |-> b],
     material     |-> "boots"]

\* "two": an unskinned mesh listing the bones backwards, and a skinned mesh on
\* the last bone alone whose material the model does not have
UnskinnedMesh(n) ==
    [vertexFields |-> [hasNormal |-> TRUE, hasTangent |-> FALSE, hasColor |-> FALSE,
                       hasBoneMapping |-> FALSE, uvCount |-> 1],
     vertices     |-> <<SourceVertex(<<-3, n, 4>>, <<>>)>>,
     faces        |-> <<>>,
     boneGroup    |-> [b \in 1..n |-> n + 1 - b],
     material     |-> "Face_skin"]

MeshOnLastBone(n) ==
    [vertexFields |-> [hasNormal |-> FALSE, hasTangent |-> FALSE, hasColor |-> FALSE,
                       hasBoneMapping |-> TRUE, uvCount |-> 1],
     vertices     |-> <<SourceVertex(<<5, 5, n>>, IF n > 0 THEN <<<<0, 7>>>> ELSE <<>>),
                        SourceVertex(<<6, -1, 0>>, <<>>)>>,
     faces        |-> <<>>,
     boneGroup    |-> IF n > 0 THEN <<n>> ELSE <<>>,
     material     |-> "missing"]

SourceModel(bones, shape) ==
    CASE shape = "none" ->
             [bones |-> bones, meshes |-> <<>>, materials |-> <<>>, meshGroups |-> <<>>]
      [] shape = "one" ->
             [bones |-> bones, meshes |-> <<MeshOverAllBones(Len(bones))>>,
              materials |-> <<"boots">>, meshGroups |-> <<>>]
      [] shape = "two" ->
             [bones |-> bones,
              meshes |-> <<UnskinnedMesh(Len(bones)), MeshOnLastBone(Len(bones))>>,
              materials |-> <<"Face_skin", "boots">>, meshGroups |-> <<"grp">>]

SourceModels == {SourceModel(b, sh) : b \in ModelBoneLists, sh \in ModelShapes}

\* a model whose mesh lists a bone the model does not have
DanglingModel ==
    [bones |-> <<"Hips">>,
     meshes |-> <<[MeshOverAllBones(1) EXCEPT !.boneGroup = <<2>>]>>,
     materials |-> <<"boots">>, meshGroups |-> <<>>]

\* a model without bones whose mesh declares bone mapping and whose vertex
\* maps local bone 0
BonelessSkinnedModel ==
    [bones |-> <<>>,
     meshes |-> <<[MeshOverAllBones(0) EXCEPT
                      !.vertices = <<SourceVertex(<<1, 1, 1>>, <<<<0, 5>>>>)>>]>>,
     materials |-> <<"boots">>, meshGroups |-> <<>>]

\* a model with more source groups than meshes
SpareGroupModel ==
    [bones |-> <<"Hips">>, meshes |-> <<MeshOverAllBones(1)>>,
     materials |-> <<"boots">>, meshGroups |-> <<"body", "spare">>]

\* a model with a mesh and no material
UnmaterialedModel ==
    [bones |-> <<"Hips">>, meshes |-> <<MeshOverAllBones(1)>>,
     materials |-> <<>>, meshGroups |-> <<>>]

ModelPath(i) == "k/m" \o ToString(i) \o ".model"

\* the descriptors of the models' directory k, one of them unparsable, and of
\* another directory
EngineDirs ==
    ("k" :> <<MtlFile("kit.mtl", TRUE,
                <<MtlElement("boots", "Basic_C", <<State("twosided", "1")>>,
                             <<Sampler("DiffuseMap", "./boots.dds")>>),
                  MtlElement("Face_skin", "Shadeless", <<>>,
                             <<Sampler("DiffuseMap", "face.dds")>>)>>),
              \* a file that fails to parse; what it would have declared
              MtlFile("bad.mtl", FALSE,
                <<MtlElement("boots", "Shadeless", <<State("alphablend", "1")>>,
                             <<Sampler("DiffuseMap", "bad.dds")>>),
                  MtlElement("Face_skin", "Basic_C", <<>>, <<>>)>>)>>)
    @@ ("other" :> <<MtlFile("o.mtl", TRUE,
                <<MtlElement("boots", "Shadeless", <<State("alphablend", "1")>>,
                             <<>>)>>)>>)

\* modelMetadata: nothing, or an entry for the first file
Metadatas ==
    {<<>>}
    \cup {ModelPath(1) :> e :
              e \in {<<>>,
                     "type" :> "Uniform",
                     ("type" :> NoneStr) @@ ("category" :> NoneStr),
                     ("type" :> "parts") @@ ("category" :> "gloves")}}

InitEngine ==
    /\ pc = "call"
    /\ loaded = <<>>
    /\ ret = None
    /\ \/ \E n \in 0..MaxFiles :
              \E models \in [1..n -> SourceModels] :
                  /\ disk = [dirs   |-> EngineDirs,
                             models |-> [p \in {ModelPath(i) : i \in 1..(n + 1)} |->
                                            LET i == CHOOSE j \in 1..(n + 1) :
                                                         ModelPath(j) = p
                                            IN  IF i <= n THEN models[i]
                                                ELSE SourceModel(<<"Hips">>, "one")]]
                  /\ call \in [fn : {"combineBootsModels"},
                               modelFiles : {[i \in 1..n |-> ModelPath(i)]},
                               sourceDirectory : {"k", "other"},
                               modelMetadata : Metadatas]
       \/ /\ disk = [dirs |-> EngineDirs, models |-> <<>>]
          /\ call \in [fn : {"convertModel"},
                       model : SourceModels
                                   \cup {DanglingModel, BonelessSkinnedModel,
                                         SpareGroupModel, UnmaterialedModel},
                       sourceDirectory : {"k", "other", "nowhere"},
                       modelType : ModelTypes,
                       modelCategory : ModelCategories]

CallConvertModel ==
    /\ pc = "call"
    /\ call.fn = "convertModel"
    /\ ret' = IF convertModelRaises(call.model) THEN Raised
              ELSE convertModel(call.model, call.sourceDirectory, call.modelType,
                                call.modelCategory, disk, 1)
    /\ pc' = "return"
    /\ UNCHANGED <<call, loaded, disk>>

CallCombineBootsModels ==
    /\ pc = "call"
    /\ call.fn = "combineBootsModels"
    /\ loaded' = loaded \o combineLoads(call.modelFiles, disk)
    /\ ret' = IF combineBootsModelsRaises(call.modelFiles, disk) THEN Raised
              ELSE combineBootsModels(call.modelFiles, call.sourceDirectory,
                                      call.modelMetadata, disk)
    /\ pc' = "return"
    /\ UNCHANGED <<call, disk>>

Next == CallConvertModel \/ CallCombineBootsModels

Spec == InitEngine /\ [][Next]_vars

\* the call of fn returned a model
Returned(fn) == pc = "return" /\ call.fn = fn /\ ret /= Raised

\* the source model of the i-th file of a combineBootsModels call
SourceOf(i) == disk.models[call.modelFiles[i]]

BoneIds(fmdl) == {fmdl.bones[b].id : b \in DOMAIN fmdl.bones}

\* the bones of the returned model that have the name
ReturnedBonesNamed(name) == {b \in DOMAIN ret.bones : ret.bones[b].name = name}

ReturnedBoneNamed(name) == ret.bones[CHOOSE b \in ReturnedBonesNamed(name) : TRUE]

\* C2: in the model convertModel returns and in the model combineBootsModels
\* returns, every bone of a mesh's boneGroup and every key of a vertex's
\* boneMapping is a bone of the returned model's bones list
C2_NoDanglingBoneReferences ==
    (Returned("convertModel") \/ Returned("combineBootsModels")) =>
        \A m \in DOMAIN ret.meshes :
            /\ \A b \in DOMAIN ret.meshes[m].boneGroup :
                   ret.meshes[m].boneGroup[b] \in BoneIds(ret)
            /\ \A v \in DOMAIN ret.meshes[m].vertices :
                   DictKeys(ret.meshes[m].vertices[v].boneMapping) \subseteq BoneIds(ret)

\* two files were merged, the second declaring a bone name the first declares
\* too, and a vertex of the second file's mesh maps the first file's bone
C2_Witness ==
    /\ Returned("combineBootsModels")
    /\ Len(call.modelFiles) = 2
    /\ Range(SourceOf(1).bones) \cap Range(SourceOf(2).bones) /= {}
    /\ \E m \in DOMAIN ret.meshes :
           /\ ret.meshes[m].id[1] = 2
           /\ \E v \in DOMAIN ret.meshes[m].vertices :
                  \E key \in DictKeys(ret.meshes[m].vertices[v].boneMapping) :
                      key[1] = 1 /\ key \in BoneIds(ret)

\* C3: after a merge of N > 1 models, each bone name an input declares has
\* exactly one bone in the merged list, the one of the first model declaring
\* it, and every boneGroup entry and boneMapping key of a mesh that stood for
\* a source bone of that name is that one merged bone
C3_SharedBoneMergedOnce ==
    (Returned("combineBootsModels") /\ Len(call.modelFiles) > 1) =>
        \A i \in DOMAIN call.modelFiles :
            /\ \A name \in Range(SourceOf(i).bones) :
                   /\ Cardinality(ReturnedBonesNamed(name)) = 1
                   /\ ReturnedBoneNamed(name).id[1] =
                          MinOf({j \in DOMAIN call.modelFiles :
                                     name \in Range(SourceOf(j).bones)})
            /\ \A m \in DOMAIN SourceOf(i).meshes :
                   LET model == SourceOf(i)
                       src == model.meshes[m]
                       out == MeshById(ret.meshes, <<i, m>>)
                   IN  /\ Len(out.boneGroup) = Len(src.boneGroup)
                       /\ \A b \in DOMAIN src.boneGroup :
                              out.boneGroup[b] =
                                  ReturnedBoneNamed(model.bones[src.boneGroup[b]]).id
                       /\ src.vertexFields.hasBoneMapping =>
                              \A v \in DOMAIN src.vertices :
                                  DictKeys(out.vertices[v].boneMapping) =
                                      {ReturnedBoneNamed(
                                           model.bones[src.boneGroup[
                                               src.vertices[v].boneMapping[k][1] + 1]]).id :
                                       k \in DOMAIN src.vertices[v].boneMapping}

\* two models that both declare "Hips" were merged: the one merged "Hips" is
\* the first model's, and a vertex of the second model maps it
C3_Witness ==
    /\ Returned("combineBootsModels")
    /\ Len(call.modelFiles) = 2
    /\ "Hips" \in Range(SourceOf(1).bones) \cap Range(SourceOf(2).bones)
    /\ ReturnedBoneNamed("Hips").id[1] = 1
    /\ \E m \in DOMAIN ret.meshes :
           /\ ret.meshes[m].id[1] = 2
           /\ \E v \in DOMAIN ret.meshes[m].vertices :
                  ReturnedBoneNamed("Hips").id
                      \in DictKeys(ret.meshes[m].vertices[v].boneMapping)

\* the hints modelMetadata supplies for the first file: NoneStr for a hint
\* it does not supply
SuppliedHint(key) ==
    DictGet(DictGet(call.modelMetadata, call.modelFiles[1], <<>>), key, NoneStr)

SameBonesMeshesMaterials(a, b) ==
    /\ a.bones = b.bones
    /\ a.meshes = b.meshes
    /\ a.materialInstances = b.materialInstances

\* C4 as claimed: combineBootsModels on a single file returns the bones,
\* meshes and material instances of convertModel on the loaded model with the
\* same directory and exactly the hints the caller supplied (none when the
\* metadata has no entry for the file)
C4_SingleFileIsConvertModelWithSuppliedHints ==
    (Returned("combineBootsModels") /\ Len(call.modelFiles) = 1) =>
        SameBonesMeshesMaterials(ret,
            convertModel(SourceOf(1), call.sourceDirectory,
                         SuppliedHint("type"), SuppliedHint("category"), disk, 1))

\* C4 as amended: the category hint is the supplied one, and "boots" when
\* the metadata supplies no category for the file
C4_SingleFileIsConvertModelDefaultBoots ==
    (Returned("combineBootsModels") /\ Len(call.modelFiles) = 1) =>
        /\ SameBonesMeshesMaterials(ret,
               convertModel(SourceOf(1), call.sourceDirectory, SuppliedHint("type"),
                   IF "category" \in DOMAIN DictGet(call.modelMetadata,
                                                   call.modelFiles[1], <<>>)
                   THEN SuppliedHint("category") ELSE "boots",
                   disk, 1))
        /\ loaded = <<call.modelFiles[1]>>

\* a single file without metadata, holding a material named Face_skin with a
\* local texture, was converted: the texture went to the boots directory
C4_Witness ==
    /\ Returned("combineBootsModels")
    /\ Len(call.modelFiles) = 1
    /\ call.modelMetadata = <<>>
    /\ call.sourceDirectory = "k"
    /\ \E k \in DOMAIN ret.materialInstances :
           /\ ret.materialInstances[k].name = "Face_skin"
           /\ ret.materialInstances[k].textures =
                  <<<<"Base_Tex_SRGB", [directory |-> BootsTextureDirectory,
                                        filename  |-> "face.dds"]>>>>

\* C5: combineBootsModels on an empty list returns a model with no bones, no
\* meshes, no material instances and no mesh groups, and loads no file
C5_EmptyListGivesEmptyModel ==
    (pc = "return" /\ call.fn = "combineBootsModels" /\ call.modelFiles = <<>>) =>
        /\ ret /= Raised
        /\ ret.bones = <<>>
        /\ ret.meshes = <<>>
        /\ ret.materialInstances = <<>>
        /\ ret.meshGroups = <<>>
        /\ loaded = <<>>

\* the call on the empty list returned, with a model file on disk
C5_Witness ==
    /\ pc = "return"
    /\ call.fn = "combineBootsModels"
    /\ call.modelFiles = <<>>
    /\ DOMAIN disk.models /= {}
    /\ ret = EmptyFmdlFile

\* the independent conversion of the i-th file of the call
ConvertedAlone(i) ==
    LET metadata == DictGet(call.modelMetadata, call.modelFiles[i], <<>>)
    IN  convertModel(SourceOf(i), Dirname(call.modelFiles[i]),
                     DictGet(metadata, "type", NoneStr),
                     DictGet(metadata, "category", "boots"), disk, i)

\* the sum of the lengths of the lists
RECURSIVE TotalLength(_)
TotalLength(lists) ==
    IF lists = <<>> THEN 0 ELSE Len(Head(lists)) + TotalLength(Tail(lists))

\* C10: for N > 1 files the merged materialInstances is the concatenation in
\* file order of the converted models' instances, none dropped; meshes and
\* meshGroups are the concatenations of the converted models' meshes and
\* groups, so each count is the sum of the per-model counts
C10_MergeConcatenatesInInputOrder ==
    (Returned("combineBootsModels") /\ Len(call.modelFiles) > 1) =>
        LET n == Len(call.modelFiles)
            materials == [i \in 1..n |-> ConvertedAlone(i).materialInstances]
            meshes == [i \in 1..n |->
                          LET alone == ConvertedAlone(i).meshes
                          IN  [k \in DOMAIN alone |-> alone[k].id]]
            groups == [i \in 1..n |->
                          LET alone == ConvertedAlone(i).meshGroups
                          IN  [k \in DOMAIN alone |-> <<alone[k].name, alone[k].meshes>>]]
        IN  /\ ret.materialInstances = Concatenate(materials, 1)
            /\ [k \in DOMAIN ret.meshes |-> ret.meshes[k].id] = Concatenate(meshes, 1)
            /\ [k \in DOMAIN ret.meshGroups |->
                   <<ret.meshGroups[k].name, ret.meshGroups[k].meshes>>]
                   = Concatenate(groups, 1)
            /\ Len(ret.materialInstances) = TotalLength(materials)
            /\ Len(ret.meshes) =
                   TotalLength([i \in 1..n |-> SourceOf(i).meshes])
            /\ Len(ret.meshGroups) = TotalLength(groups)

\* two files that both have a material named boots were merged: both
\* instances are in the merged list, the first file's ahead
C10_Witness ==
    /\ Returned("combineBootsModels")
    /\ Len(call.modelFiles) = 2
    /\ Len(ret.meshes) = 3
    /\ \E a, b \in DOMAIN ret.materialInstances :
           /\ a < b
           /\ ret.materialInstances[a].name = "boots"
           /\ ret.materialInstances[b].name = "boots"
           /\ ret.materialInstances[a].id[1] = 1
           /\ ret.materialInstances[b].id[1] = 2

\* the source model has no bones and a mesh declaring bone mapping
BonelessWithBoneMapping(model) ==
    /\ model.bones = <<>>
    /\ \E m \in DOMAIN model.meshes : model.meshes[m].vertexFields.hasBoneMapping

\* C11: convertModel raises, and returns no model, for every source model
\* that has zero bones and a mesh whose vertex fields declare bone mapping
C11_BonelessBoneMappingRaises ==
    (pc = "return" /\ call.fn = "convertModel"
        /\ BonelessWithBoneMapping(call.model)) => ret = Raised

\* the descriptor files of a directory that fail to parse
FailingDescriptors(directory) ==
    IF directory \in DOMAIN disk.dirs
    THEN {f \in Range(disk.dirs[directory]) :
              ~f.parses /\ EndsWith(Lower(f.filename), ".mtl")}
    ELSE {}

\* the file system with the files that fail to parse deleted
WithoutFailingDescriptors ==
    [disk EXCEPT !.dirs = [d \in DOMAIN disk.dirs |->
                              SelectSeq(disk.dirs[d], LAMBDA f : f.parses)]]

\* the hint the metadata of a combineBootsModels call gives the i-th file
HintOf(i, key, default) ==
    DictGet(DictGet(call.modelMetadata, call.modelFiles[i], <<>>), key, default)

\* C12: with a descriptor file that fails to parse in the directory, the
\* material resolver does not raise and returns one instance per source
\* material, resolved as if the failing file were not there (the other
\* files' materials are in the map, the failing file's are not); a merge of
\* several files of that directory is not aborted, and every input model's
\* instances are those it gets without the failing file
C12_ParseFailureContributesNothing ==
    /\ (pc = "return" /\ call.fn = "convertMaterials"
            /\ FailingDescriptors(call.sourceDirectory) /= {}) =>
           /\ Len(ret) = Len(call.model.materials)
           /\ ret = convertMaterials(call.model, call.sourceDirectory, call.modelType,
                                     call.modelCategory, WithoutFailingDescriptors, 1)
    /\ (pc = "return" /\ call.fn = "convertModel"
            /\ FailingDescriptors(call.sourceDirectory) /= {}
            /\ ~convertModelRaises(call.model)) =>
           /\ ret /= Raised
           /\ Len(ret.materialInstances) = Len(call.model.materials)
           /\ ret.materialInstances =
                  convertMaterials(call.model, call.sourceDirectory, call.modelType,
                                   call.modelCategory, WithoutFailingDescriptors, 1)
    /\ (pc = "return" /\ call.fn = "combineBootsModels" /\ Len(call.modelFiles) > 1
            /\ \E i \in DOMAIN call.modelFiles :
                   FailingDescriptors(Dirname(call.modelFiles[i])) /= {}) =>
           /\ ret /= Raised
           /\ ret.materialInstances =
                  Concatenate([i \in DOMAIN call.modelFiles |->
                                  convertMaterials(SourceOf(i), Dirname(call.modelFiles[i]),
                                      HintOf(i, "type", NoneStr),
                                      HintOf(i, "category", "boots"),
                                      WithoutFailingDescriptors, i)], 1)
           /\ \A k \in DOMAIN ret.materialInstances :
                  ret.materialInstances[k].name = "boots" =>
                      ret.materialInstances[k].shader = "fox3ddf_blin"

\* two files of a directory whose bad.mtl fails to parse were merged: the
\* second file's boots material follows kit.mtl (deferred shader, texture
\* boots.dds), not the declaration in bad.mtl
C12_Witness ==
    /\ Returned("combineBootsModels")
    /\ Len(call.modelFiles) = 2
    /\ \E f \in FailingDescriptors("k") :
           \E e \in Range(f.materials) : e.name = "boots" /\ e.shader = "Shadeless"
    /\ \E k \in DOMAIN ret.materialInstances :
           /\ ret.materialInstances[k].id[1] = 2
           /\ ret.materialInstances[k].name = "boots"
           /\ ret.materialInstances[k].shader = "fox3ddf_blin"
           /\ ret.materialInstances[k].textures =
                  <<<<"Base_Tex_SRGB", [directory |-> BootsTextureDirectory,
                                        filename  |-> "boots.dds"]>>>>

\* the target bones of the source mesh's local bone list, entry by entry
ReferencedTargetBones ==
    [b \in DOMAIN call.modelMesh.boneGroup |->
        call.modelFmdlBones[call.modelMesh.boneGroup[b]]]

\* C13: the boneGroup of a converted mesh lists each target bone that the
\* source mesh's local bone list references exactly once, in order of first
\* reference, also when two local entries are source bones of one name
C13_BoneGroupWithoutDuplicates ==
    (pc = "return" /\ call.fn = "convertMesh") =>
        LET referenced == ReferencedTargetBones
            first == FirstOccurrences(referenced)
        IN  /\ \A i, j \in DOMAIN ret.boneGroup :
                   i /= j => ret.boneGroup[i] /= ret.boneGroup[j]
            /\ Len(ret.boneGroup) = Cardinality(first)
            /\ \A i \in DOMAIN ret.boneGroup :
                   \E a \in first :
                       /\ referenced[a] = ret.boneGroup[i]
                       /\ Cardinality({c \in first : c < a}) = i - 1

\* C14: for a mesh with bone mapping, every source entry (local bone index
\* i, weight w) of a vertex is in the converted vertex as (target bone of
\* the i-th local bone, w): no weight is lost or altered, also when two
\* local indices resolve to source bones of one name
C14_EveryWeightCopied ==
    (pc = "return" /\ call.fn = "convertMesh"
        /\ call.modelMesh.vertexFields.hasBoneMapping) =>
        \A v \in DOMAIN call.modelMesh.vertices :
            \A k \in DOMAIN call.modelMesh.vertices[v].boneMapping :
                LET boneIndex == call.modelMesh.vertices[v].boneMapping[k][1]
                    weight == call.modelMesh.vertices[v].boneMapping[k][2]
                IN  <<ReferencedTargetBones[boneIndex + 1], weight>>
                        \in Range(ret.vertices[v].boneMapping)

\* box a lies within box b
Contained(a, b) ==
    \A c \in 1..3 : b.min[c] <= a.min[c] /\ a.max[c] <= b.max[c]

\* the bounding box the returned model carries: convertModel and
\* combineBootsModels assign bones, materialInstances, meshes and meshGroups,
\* and calculateBoundingBoxes assigns boxes to bones and groups only
ModelBoundingBox(fmdlFile) ==
    IF "boundingBox" \in DOMAIN fmdlFile THEN fmdlFile.boundingBox ELSE None

\* the mesh groups of the returned model, children included
RECURSIVE GroupsUnder(_)
GroupsUnder(meshGroups) ==
    UNION {{meshGroups[g]} \cup GroupsUnder(meshGroups[g].children) :
               g \in DOMAIN meshGroups}

\* in the returned model the box of every mesh lies within the box of the
\* group that holds it
MeshBoxesWithinGroupBoxes ==
    \A group \in GroupsUnder(ret.meshGroups) :
        \A i \in DOMAIN group.meshes :
            Contained(MeshById(ret.meshes, group.meshes[i]).boundingBox,
                      group.boundingBox)

\* C15: in every model convertModel or combineBootsModels returns, the box
\* of every mesh lies within the box of the group holding it, and the boxes
\* of all meshes and groups lie within the model's bounding box, which is the
\* union of the meshes' boxes (the origin box for a model without meshes)
C15_BoxesContainedUpToModel ==
    (Returned("convertModel") \/ Returned("combineBootsModels")) =>
        LET modelBox == ModelBoundingBox(ret)
        IN  /\ MeshBoxesWithinGroupBoxes
            /\ modelBox /= None
            /\ modelBox = IF Len(ret.meshes) = 0 THEN OriginBox
                          ELSE UnionOfBoxes([m \in DOMAIN ret.meshes |->
                                                ret.meshes[m].boundingBox])
            /\ \A m \in DOMAIN ret.meshes :
                   Contained(ret.meshes[m].boundingBox, modelBox)
            /\ \A group \in GroupsUnder(ret.meshGroups) :
                   Contained(group.boundingBox, modelBox)

\* the positions of the vertices of the returned model, over all its meshes,
\* whose boneMapping has the bone as a key
PositionsMappedTo(bone) ==
    {ret.meshes[m[1]].vertices[m[2]].position :
         m \in {w \in UNION {{<<n, v>> : v \in DOMAIN ret.meshes[n].vertices} :
                                 n \in DOMAIN ret.meshes} :
                    bone.id \in DictKeys(ret.meshes[w[1]].vertices[w[2]].boneMapping)}}

\* C16: in the model convertModel or combineBootsModels returns, the box of
\* each bone is, coordinate by coordinate, the least and the greatest over
\* the positions of all vertices of all meshes whose boneMapping has the
\* bone, with w = 1, and the origin box when no vertex maps it; after a
\* merge this is against the merged meshes and the deduplicated bones
C16_BoneBoxCoversMappedVertices ==
    (Returned("convertModel") \/ Returned("combineBootsModels")) =>
        \A b \in DOMAIN ret.bones :
            LET box == ret.bones[b].boundingBox
                positions == PositionsMappedTo(ret.bones[b])
            IN  /\ box /= None
                /\ box.min[4] = 1 /\ box.max[4] = 1
                /\ positions = {} => box = OriginBox
                /\ positions /= {} =>
                       \A c \in 1..3 :
                           /\ \A p \in positions : box.min[c] <= p[c] /\ p[c] <= box.max[c]
                           /\ \E p \in positions : p[c] = box.min[c]
                           /\ \E p \in positions : p[c] = box.max[c]

\* the files with bones Spine, Hips and toe, Hips, toe, each with a mesh over
\* all its bones, were merged: the box of the one Hips covers the vertices
\* of both files that map it
C16_Witness ==
    /\ Returned("combineBootsModels")
    /\ Len(call.modelFiles) = 2
    /\ Cardinality(ReturnedBonesNamed("Hips")) = 1
    /\ \E p, q \in PositionsMappedTo(ReturnedBoneNamed("Hips")) :
           p = <<2, 4, -2>> /\ q = <<4, 6, -4>>
    /\ ReturnedBoneNamed("Hips").boundingBox =
           [min |-> <<2, 4, -4, 1>>, max |-> <<4, 6, -2, 1>>]

\* the group has a mesh with vertices, or a child that has
RECURSIVE Contributes(_)
Contributes(group) ==
    \/ \E i \in DOMAIN group.meshes :
           Len(MeshById(ret.meshes, group.meshes[i]).vertices) > 0
    \/ \E c \in DOMAIN group.children : Contributes(group.children[c])

\* the boxes a group's box is the union of
ContributingBoxes(group) ==
    {MeshById(ret.meshes, group.meshes[i]).boundingBox :
         i \in {j \in DOMAIN group.meshes :
                    Len(MeshById(ret.meshes, group.meshes[j]).vertices) > 0}}
    \cup {group.children[c].boundingBox :
              c \in {d \in DOMAIN group.children : Contributes(group.children[d])}}

\* C17: in the model convertModel or combineBootsModels returns, every mesh
\* group has a box: the union of the boxes of its own meshes and of its
\* child groups, and the origin box when no mesh or child contributes one
C17_EveryGroupBoxIsUnion ==
    (Returned("convertModel") \/ Returned("combineBootsModels")) =>
        \A group \in GroupsUnder(ret.meshGroups) :
            LET box == group.boundingBox
                boxes == ContributingBoxes(group)
            IN  /\ box /= None
                /\ box.min[4] = 1 /\ box.max[4] = 1
                /\ boxes = {} => box = OriginBox
                /\ boxes /= {} =>
                       \A c \in 1..3 :
                           /\ \A b \in boxes : box.min[c] <= b.min[c]
                                                /\ b.max[c] <= box.max[c]
                           /\ \E b \in boxes : b.min[c] = box.min[c]
                           /\ \E b \in boxes : b.max[c] = box.max[c]
                /\ \A i \in DOMAIN group.meshes :
                       Contained(MeshById(ret.meshes, group.meshes[i]).boundingBox, box)

\* a model with one mesh and the source groups body and spare was
\* converted: body has the mesh's box, spare the origin box
C17_Witness ==
    /\ Returned("convertModel")
    /\ Len(ret.meshGroups) = 2
    /\ ret.meshGroups[1].meshes = <<ret.meshes[1].id>>
    /\ ret.meshGroups[1].boundingBox = [min |-> <<1, 2, -2, 1>>, max |-> <<2, 2, -1, 1>>]
    /\ ret.meshGroups[2].meshes = <<>>
    /\ ret.meshGroups[2].boundingBox = OriginBox

\* C18: a converted mesh has as many faces as the source mesh, in the same
\* order, each with exactly three vertex references: the converted
\* counterparts of the source face's vertices at positions 2, 1, 0
C18_FacesReversed ==
    (pc = "return" /\ call.fn = "convertMesh") =>
        LET src == call.modelMesh.faces
        IN  /\ Len(ret.faces) = Len(src)
            /\ Len(ret.vertices) = Len(call.modelMesh.vertices)
            /\ \A f \in DOMAIN src :
                   /\ Len(ret.faces[f]) = 3
                   /\ ret.faces[f][1] = src[f][3]
                   /\ ret.faces[f][2] = src[f][2]
                   /\ ret.faces[f][3] = src[f][1]
                   /\ \A c \in 1..3 :
                          /\ ret.faces[f][c] \in DOMAIN ret.vertices
                          /\ ret.vertices[ret.faces[f][c]].position =
                                 call.modelMesh.vertices[src[f][4 - c]].position

\* a mesh with the faces (1, 2, 3) and (2, 1, 3) over three different
\* points was converted to the faces (3, 2, 1) and (3, 1, 2)
C18_Witness ==
    /\ pc = "return"
    /\ call.fn = "convertMesh"
    /\ call.modelMesh.faces = <<<<1, 2, 3>>, <<2, 1, 3>>>>
    /\ Cardinality({call.modelMesh.vertices[v].position :
                        v \in DOMAIN call.modelMesh.vertices}) = 3
    /\ ret.faces = <<<<3, 2, 1>>, <<3, 1, 2>>>>

\* C19: the materialInstance of a converted mesh is the first instance of
\* the target material list named like the source mesh's material; when none
\* is, it is the first instance of the list; it is null exactly when the
\* list is empty
C19_MaterialByNameElseFirst ==
    (pc = "return" /\ call.fn = "convertMesh") =>
        LET instances == call.materialInstances
            named == {i \in DOMAIN instances :
                          instances[i].name = call.modelMesh.material}
        IN  /\ named /= {} =>
                   \E i \in named : /\ ret.materialInstance = instances[i]
                                    /\ \A j \in named : i <= j
            /\ (named = {} /\ instances /= <<>>) =>
                   ret.materialInstance = instances[1]
            /\ (ret.materialInstance = None) <=> (instances = <<>>)

\* a mesh with material skin was converted against the instances other,
\* skin, skin: it took the second instance, the first of the two named skin
C19_Witness ==
    /\ pc = "return"
    /\ call.fn = "convertMesh"
    /\ Len(call.materialInstances) = 3
    /\ call.materialInstances[3].name = "skin"
    /\ call.modelMesh.material = "skin"
    /\ ret.materialInstance = call.materialInstances[2]

\* C20: a mesh of a returned model carries Has-Antiblur-Meshes exactly when
\* its resolved material instance is not null and has the shader
\* fox3dfw_constant_srgb_ndr_solid, whether the material was resolved from
\* a descriptor, by the no-descriptor default or by the first-material
\* fallback; it carries no other marker
C20_AntiblurFollowsResolvedShader ==
    (Returned("convertModel") \/ Returned("combineBootsModels")) =>
        \A m \in DOMAIN ret.meshes :
            LET mesh == ret.meshes[m]
            IN  /\ ("Has-Antiblur-Meshes" \in mesh.extensionHeaders) <=>
                       /\ mesh.materialInstance /= None
                       /\ mesh.materialInstance.shader = "fox3dfw_constant_srgb_ndr_solid"
                /\ mesh.extensionHeaders \subseteq {"Has-Antiblur-Meshes"}
                /\ mesh.materialInstance /= None =>
                       mesh.materialInstance \in Range(ret.materialInstances)

\* a model with the materials Face_skin and boots and a mesh of material
\* missing was converted in directory k: the mesh fell back to Face_skin,
\* whose descriptor gives the forward shader, and is marked
C20_Witness ==
    /\ Returned("convertModel")
    /\ call.sourceDirectory = "k"
    /\ Len(ret.meshes) = 2
    /\ call.model.meshes[2].material = "missing"
    /\ ret.meshes[2].materialInstance.name = "Face_skin"
    /\ ret.meshes[2].materialInstance.shader = "fox3dfw_constant_srgb_ndr_solid"
    /\ ret.meshes[2].extensionHeaders = {"Has-Antiblur-Meshes"}

\* C21: convertMaterials returns one instance per entry of the source
\* materials mapping, in the mapping's order, each with the entry's name, a
\* repeated name giving an instance per entry, and every instance has no
\* parameters
C21_OneInstancePerSourceMaterial ==
    (pc = "return" /\ call.fn = "convertMaterials") =>
        /\ Len(ret) = Len(call.model.materials)
        /\ \A k \in DOMAIN ret :
               /\ ret[k].name = call.model.materials[k]
               /\ ret[k].parameters = <<>>
               /\ \A j \in DOMAIN ret : j /= k => ret[j].id /= ret[k].id

\* a model whose two materials have one name, declared by a descriptor, was
\* converted to two instances of that name
C21_Witness ==
    /\ pc = "return"
    /\ call.fn = "convertMaterials"
    /\ Len(call.model.materials) = 2
    /\ call.model.materials[1] = call.model.materials[2]
    /\ Declarations(call.model.materials[1]) /= {}
    /\ Len(ret) = 2
    /\ ret[1].name = ret[2].name

\* the <material> elements of the parsed descriptor files of the call's
\* directory, in the order of enumeration
RECURSIVE ElementsInOrder(_)
ElementsInOrder(files) ==
    IF files = <<>> THEN <<>>
    ELSE (IF Head(files).parses /\ EndsWith(Lower(Head(files).filename), ".mtl")
          THEN Head(files).materials ELSE <<>>)
         \o ElementsInOrder(Tail(files))

DeclarationsInOrder ==
    IF call.sourceDirectory \in DOMAIN disk.dirs
    THEN ElementsInOrder(disk.dirs[call.sourceDirectory])
    ELSE <<>>

\* the last declaration of the name in enumeration order
LastDeclaration(materialName) ==
    LET all == DeclarationsInOrder
    IN  all[MaxOf({i \in DOMAIN all : all[i].name = materialName})]

\* the path of the first DiffuseMap sampler of the element, "" for an absent
\* path attribute, NoneStr when the element has no such sampler
DiffusePath(element) ==
    LET diffuse == {i \in DOMAIN element.samplers :
                        element.samplers[i].name = "DiffuseMap"}
    IN  IF diffuse = {} THEN NoneStr
        ELSE LET path == element.samplers[MinOf(diffuse)].path
             IN  IF path = NoneStr THEN "" ELSE path

\* name is the last component of path
FilenameOf(name, path) ==
    /\ ~Contains(name, "/")
    /\ \/ name = path
       \/ EndsWith(path, "/" \o name)

\* C22: when the type hint is not "uniform" and the descriptor has a diffuse
\* sampler, a path starting with model/character/uniform/common goes to the
\* shared directory with its filename kept; any other path is local, and its
\* directory is the faces, boots or gloves path for the category hint faces,
\* boots or gloves, and without a category hint the face path when the
\* material name holds "face", "hair" or "oral" in any case, else the boots
\* path
C22_TextureDirectoryByPathCategoryName ==
    (pc = "return" /\ call.fn = "convertMaterials"
        /\ Lower(call.modelType) /= "uniform") =>
        \A k \in DOMAIN ret :
            LET name == call.model.materials[k]
                path == IF Declarations(name) /= {}
                        THEN DiffusePath(LastDeclaration(name)) ELSE NoneStr
                lower == Lower(name)
            IN  path /= NoneStr =>
                    /\ Len(ret[k].textures) = 1
                    /\ ret[k].textures[1][1] = "Base_Tex_SRGB"
                    /\ LET texture == ret[k].textures[1][2]
                       IN  IF StartsWith(path, "model/character/uniform/common")
                           THEN /\ texture.directory =
                                       "/Assets/pes16/model/character/common/000/sourceimages/"
                                /\ FilenameOf(texture.filename, path)
                           ELSE /\ FilenameOf(texture.filename, path)
                                /\ call.modelCategory = "faces" => texture.directory =
                                       "/Assets/pes16/model/character/face/real/00000/sourceimages/"
                                /\ call.modelCategory = "boots" => texture.directory =
                                       "/Assets/pes16/model/character/boots/k0000/"
                                /\ call.modelCategory = "gloves" => texture.directory =
                                       "/Assets/pes16/model/character/glove/g0000/"
                                /\ call.modelCategory = NoneStr => texture.directory =
                                       IF Contains(lower, "face") \/ Contains(lower, "hair")
                                          \/ Contains(lower, "oral")
                                       THEN "/Assets/pes16/model/character/face/real/00000/sourceimages/"
                                       ELSE "/Assets/pes16/model/character/boots/k0000/"

\* without hints, HAIR_top with the local texture ./hair.dds and teeth_Oral
\* were resolved to the face path
C22_Witness ==
    /\ pc = "return"
    /\ call.fn = "convertMaterials"
    /\ call.modelType = NoneStr
    /\ call.modelCategory = NoneStr
    /\ call.model.materials = <<"HAIR_top", "teeth_Oral">>
    /\ ret[1].textures =
           <<<<"Base_Tex_SRGB",
               [directory |-> "/Assets/pes16/model/character/face/real/00000/sourceimages/",
                filename  |-> "hair.dds"]>>>>
    /\ ret[2].textures[1][2].directory =
           "/Assets/pes16/model/character/face/real/00000/sourceimages/"

\* the value the last <state> of the name leaves: true for the value "1"
LastStateIsOne(element, stateName) ==
    LET named == {i \in DOMAIN element.states : element.states[i].name = stateName}
    IN  named /= {} /\ element.states[MaxOf(named)].value = "1"

\* C23: a material that several descriptor files, or several elements of one
\* file, declare is resolved from the last declaration in enumeration order:
\* its shader, its state flags and its texture are that declaration's
C23_LastDeclarationWins ==
    (pc = "return" /\ call.fn = "convertMaterials") =>
        \A k \in DOMAIN ret :
            Declarations(call.model.materials[k]) /= {} =>
                LET last == LastDeclaration(call.model.materials[k])
                    path == DiffusePath(last)
                IN  /\ ret[k].shader =
                           IF last.shader \in {"Basic_C", "Basic_CNSR"}
                           THEN "fox3ddf_blin" ELSE "fox3dfw_constant_srgb_ndr_solid"
                    /\ ret[k].mtl_twosided = LastStateIsOne(last, "twosided")
                    /\ ret[k].mtl_alphablend = LastStateIsOne(last, "alphablend")
                    /\ (ret[k].textures = <<>>) <=> (path = NoneStr)
                    /\ (path /= NoneStr /\ Lower(call.modelType) /= "uniform") =>
                           FilenameOf(ret[k].textures[1][2].filename, path)

\* boots, declared by A.MTL as deferred and two-sided with first.dds and by
\* the later b.mtl as Shadeless without states or samplers, was resolved to
\* the forward shader, one-sided, without texture
C23_Witness ==
    /\ pc = "return"
    /\ call.fn = "convertMaterials"
    /\ Cardinality(ParsedDescriptors) = 2
    /\ Cardinality(Declarations("boots")) = 2
    /\ \E k \in DOMAIN ret :
           /\ ret[k].name = "boots"
           /\ ret[k].shader = "fox3dfw_constant_srgb_ndr_solid"
           /\ ~ret[k].mtl_twosided
           /\ ret[k].textures = <<>>

\* the bone of the returned list with the id
BoneWithId(bones, id) == CHOOSE b \in Range(bones) : b.id = id

\* following parent links from the bone ends at a root within steps links
RECURSIVE ReachesRoot(_, _, _)
ReachesRoot(bones, bone, steps) ==
    \/ bone.parent = None
    \/ /\ steps > 0
       /\ \E p \in Range(bones) : p.id = bone.parent
       /\ ReachesRoot(bones, BoneWithId(bones, bone.parent), steps - 1)

\* C24: after convertBones a bone has a parent exactly when its name is in
\* the reference skeleton, the skeleton names a parent for it and a bone of
\* that name is in the returned list; it is then exactly once among that
\* parent's children; every bone in a children list has the list's owner as
\* parent; all other bones have no parent; the links form a forest
C24_ParentLinksFormForest ==
    (pc = "return" /\ call.fn = "convertBones") =>
        LET out == ret.fmdlBones
        IN  /\ \A i \in DOMAIN out :
                   LET bone == out[i]
                       parentName == IF bone.name \in DOMAIN PesSkeletonData
                                     THEN PesSkeletonData[bone.name].sklParent
                                     ELSE NoneStr
                       parents == {j \in DOMAIN out : out[j].name = parentName}
                   IN  /\ (bone.parent /= None) <=> (parents /= {})
                       /\ parents /= {} =>
                              \E j \in parents :
                                  /\ bone.parent = out[j].id
                                  /\ Cardinality({c \in DOMAIN out[j].children :
                                                      out[j].children[c] = bone.id}) = 1
                       /\ \A c \in DOMAIN bone.children :
                              \E j \in DOMAIN out : /\ out[j].id = bone.children[c]
                                                    /\ out[j].parent = bone.id
                       /\ ReachesRoot(out, bone, Len(out))

\* Head, Spine, toe was converted: Head, created first, has Spine as parent
\* and is Spine's only child; Spine, whose skeleton parent Hips is not in the
\* list, and toe, which the skeleton does not have, are roots
C24_Witness ==
    /\ pc = "return"
    /\ call.fn = "convertBones"
    /\ call.modelBones = <<"Head", "Spine", "toe">>
    /\ ret.fmdlBones[1].parent = ret.fmdlBones[2].id
    /\ ret.fmdlBones[2].children = <<ret.fmdlBones[1].id>>
    /\ ret.fmdlBones[2].parent = None
    /\ ret.fmdlBones[3].parent = None

\* C25: when the source model has mesh groups the returned model has one
\* group per source group, in order, the i-th holding exactly the i-th
\* converted mesh, and no mesh when there is no i-th mesh; otherwise it has
\* one group per converted mesh, named mesh_<i> and holding exactly that
\* mesh; every group has no parent, no children and is visible
C25_GroupsByIndex ==
    Returned("convertModel") =>
        LET source == call.model.meshGroups
            groups == ret.meshGroups
        IN  /\ source /= <<>> =>
                   /\ Len(groups) = Len(source)
                   /\ \A g \in DOMAIN groups :
                          /\ groups[g].name = source[g]
                          /\ groups[g].meshes =
                                 IF g <= Len(ret.meshes) THEN <<ret.meshes[g].id>>
                                 ELSE <<>>
            /\ source = <<>> =>
                   /\ Len(groups) = Len(ret.meshes)
                   /\ \A g \in DOMAIN groups :
                          /\ groups[g].name = "mesh_" \o ToString(g - 1)
                          /\ groups[g].meshes = <<ret.meshes[g].id>>
            /\ \A g \in DOMAIN groups :
                   /\ groups[g].parent = None
                   /\ groups[g].children = <<>>
                   /\ groups[g].visible

\* a model with one source group and two meshes was converted: its one
\* group holds the first mesh
C25_Witness ==
    /\ Returned("convertModel")
    /\ Len(call.model.meshGroups) = 1
    /\ Len(ret.meshes) = 2
    /\ Len(ret.meshGroups) = 1
    /\ ret.meshGroups[1].name = call.model.meshGroups[1]
    /\ ret.meshGroups[1].meshes = <<ret.meshes[1].id>>

\* C26: in the model combineBootsModels returns for more than one file,
\* the parent of every merged bone that has one, and all its children, are
\* bones of the merged list: none is a bone of a later file that the merge
\* discarded for its name
C26_MergedBoneLinksStayInside ==
    (Returned("combineBootsModels") /\ Len(call.modelFiles) > 1) =>
        \A b \in DOMAIN ret.bones :
            /\ ret.bones[b].parent /= None => ret.bones[b].parent \in BoneIds(ret)
            /\ \A c \in DOMAIN ret.bones[b].children :
                   ret.bones[b].children[c] \in BoneIds(ret)

\* a mesh with its bone references left out: the length of its boneGroup and,
\* per vertex, the weights of the boneMapping in order
WithoutBoneReferences(mesh) ==
    [mesh EXCEPT
        !.boneGroup = Len(@),
        !.vertices  = [v \in DOMAIN @ |->
                          [@[v] EXCEPT !.boneMapping =
                               [e \in DOMAIN @ |-> @[e][2]]]]]

\* C27: the merge changes only bone references: every mesh of every input
\* model keeps, per vertex, the number of boneMapping entries and their
\* weights, and its vertex positions, faces, materialInstance, alphaFlags,
\* shadowFlags, extension markers and bounding box are those of the model
\* converted on its own
C27_MergeChangesOnlyBoneReferences ==
    (Returned("combineBootsModels") /\ Len(call.modelFiles) > 1) =>
        LET alone == Concatenate([i \in DOMAIN call.modelFiles |->
                                     ConvertedAlone(i).meshes], 1)
        IN  [k \in DOMAIN ret.meshes |-> WithoutBoneReferences(ret.meshes[k])]
                = [k \in DOMAIN alone |-> WithoutBoneReferences(alone[k])]

\* two files sharing Hips were merged, and a vertex of the second file that
\* maps two bones kept two weights, one under the first file's Hips and one
\* under a bone of its own
C27_Witness ==
    /\ Returned("combineBootsModels")
    /\ Len(call.modelFiles) = 2
    /\ "Hips" \in Range(SourceOf(1).bones) \cap Range(SourceOf(2).bones)
    /\ \E m \in DOMAIN ret.meshes :
           /\ ret.meshes[m].id[1] = 2
           /\ \E v \in DOMAIN ret.meshes[m].vertices :
                  LET mapping == ret.meshes[m].vertices[v].boneMapping
                  IN  /\ Len(mapping) = 2
                      /\ \E e \in DOMAIN mapping : mapping[e][1][1] = 1
                      /\ \E e \in DOMAIN mapping : mapping[e][1][1] = 2

\* C28: in every model convertModel returns each converted mesh is in
\* exactly one mesh group, whether or not the source model has mesh groups
\* and however many
C28_EveryMeshInExactlyOneGroup ==
    Returned("convertModel") =>
        \A m \in DOMAIN ret.meshes :
            Cardinality({g \in DOMAIN ret.meshGroups :
                             ret.meshes[m].id \in Range(ret.meshGroups[g].meshes)}) = 1


(***************************************************************************)
(* convertFaceFolder and convertPlayer                                     *)
(*                                                                         *)
(* The source side of the file system:                                     *)
(*   fs.files    directory -> the paths iglob(directory, "*.model") finds  *)
(*   fs.sizes    path -> os.path.getsize                                   *)
(*   fs.faceXml  directory -> the map parseFaceXml returns (pattern, type) *)
(*   fs.models   path -> the model loadModel returns                       *)
(*   fs.listdir  directory -> os.listdir, fs.isdir the directories         *)
(*   fs.lib      the template files of the lib folder                      *)
(* The destination directory, paths relative to it:                        *)
(*   folders     the directories made                                      *)
(*   writes      the files written, in order, each with the source files   *)
(*               it was made from                                          *)
(*   manifests   path of an .fpk.xml -> its Entry FilePaths in order       *)
(* Textures and the portrait are not part of the destination here.         *)
(***************************************************************************)
\* Body of the value, the value worked out once
Bind(value, Body(_)) == CHOOSE result \in {Body(x) : x \in {value}} : TRUE

\* os.path.join of two parts
Join(a, b) ==
    IF a = "" THEN b
    ELSE IF EndsWith(a, "/") THEN a \o b
    ELSE a \o "/" \o b

Digits == "0123456789"

\* str(n) for n >= 0
RECURSIVE DecimalOf(_)
DecimalOf(n) ==
    IF n < 10 THEN CharAt(Digits, n + 1)
    ELSE DecimalOf(n \div 10) \o CharAt(Digits, (n % 10) + 1)

RECURSIVE ZeroPad(_, _)
ZeroPad(s, width) == IF Len(s) >= width THEN s ELSE ZeroPad("0" \o s, width)

\* f"{n:04d}": at least four characters, zero-padded, the sign counted
Format04d(n) ==
    IF n < 0 THEN "-" \o ZeroPad(DecimalOf(0 - n), 3) ELSE ZeroPad(DecimalOf(n), 4)

\* s.split(sep, 1)[1] for s containing sep
RECURSIVE AfterFirst(_, _)
AfterFirst(s, sep) ==
    IF StartsWith(s, sep) THEN SubSeq(s, Len(sep) + 1, Len(s))
    ELSE AfterFirst(Tail(s), sep)

\* the player name of a folder "XXX01 - PlayerName"
PlayerName(playerFolderName) ==
    IF playerFolderName /= "" /\ Contains(playerFolderName, " - ")
    THEN AfterFirst(playerFolderName, " - ")
    ELSE IF playerFolderName /= "" THEN playerFolderName ELSE "Player"

\* convertFaceFolder's k#### / g#### folder name; ids holds bootsGlovesBaseId
\* and relativePlayerId, or is None when they are not passed
SharedFolderName(letter, ids, playerFolderName) ==
    IF ids = None THEN NoneStr
    ELSE LET bootsId == ids.bootsGlovesBaseId + ids.relativePlayerId
         IN  letter \o Format04d(bootsId) \o " - " \o PlayerName(playerFolderName)

bootsTypes ==
    {"body", "arm", "wrist", "uniform", "shirt", "cuff", "collar", "boots", "parts"}

facesTypes ==
    {"face", "face_neck", "face_montage", "eye", "mouth", "neck", "head",
     "hair", "hair_cloth", "edithair"}

glovesTypes == {"handl", "handr", "glovel", "glover"}

categorizeModelByType(modelType) ==
    IF modelType = NoneStr \/ modelType = "" THEN NoneStr
    ELSE IF Lower(modelType) \in bootsTypes THEN "boots"
    ELSE IF Lower(modelType) \in facesTypes THEN "faces"
    ELSE IF Lower(modelType) \in glovesTypes THEN "gloves"
    ELSE NoneStr

\* fnmatch.fnmatch for a pattern with one "*"
fnmatch(name, pattern) ==
    LET star == CHOOSE i \in 1..Len(pattern) : CharAt(pattern, i) = "*"
    IN  /\ Len(name) >= Len(pattern) - 1
        /\ StartsWith(name, SubSeq(pattern, 1, star - 1))
        /\ EndsWith(name, SubSeq(pattern, star + 1, Len(pattern)))

matchModelToType(modelFilename, modelTypeMap) ==
    LET name == Lower(modelFilename)
        exact == {i \in DOMAIN modelTypeMap : modelTypeMap[i][1] = name}
        globbed == {i \in DOMAIN modelTypeMap :
                        /\ Contains(modelTypeMap[i][1], "*")
                        /\ fnmatch(name, modelTypeMap[i][1])}
    IN  IF exact /= {} THEN modelTypeMap[MinOf(exact)][2]
        ELSE IF globbed /= {} THEN modelTypeMap[MinOf(globbed)][2]
        ELSE NoneStr

\* os.path.basename(modelFile)[:-6]
BaseNameOf(modelFile) ==
    LET name == Basename(modelFile) IN SubSeq(name, 1, Len(name) - 6)

HairHighSize == 990

EmptyCollection ==
    [faceModels |-> <<>>, bootsModels |-> <<>>, gloveModels |-> <<>>,
     hairHighModel |-> NoneStr]

\* lines 285-307: the category of a model file, from face.xml or its name
CategoryOf(baseName, fullBaseName, modelTypeMap) ==
    Bind(IF modelTypeMap /= None
         THEN categorizeModelByType(matchModelToType(fullBaseName, modelTypeMap))
         ELSE NoneStr,
         LAMBDA category :
             IF category /= NoneStr THEN category
             ELSE IF Contains(baseName, "face") \/ Contains(baseName, "hair")
             THEN "faces"
             ELSE IF Contains(baseName, "glove") \/ Contains(baseName, "hand")
             THEN "gloves"
             ELSE "boots")

\* lines 270-321: one .model file of a directory
CollectFile(collected, modelFile, modelTypeMap, fs) ==
    Bind(Lower(Basename(modelFile)), LAMBDA fullBaseName :
        Bind(SubSeq(fullBaseName, 1, Len(fullBaseName) - 6), LAMBDA baseName :
            IF baseName = "face_high_win32"
            THEN IF fs.sizes[modelFile] > HairHighSize
                 THEN [collected EXCEPT !.hairHighModel = modelFile]
                 ELSE collected
            ELSE Bind(CategoryOf(baseName, fullBaseName, modelTypeMap),
                      LAMBDA category :
                          CASE category = "faces" ->
                                   [collected EXCEPT !.faceModels = Append(@, modelFile)]
                            [] category = "gloves" ->
                                   [collected EXCEPT !.gloveModels = Append(@, modelFile)]
                            [] category = "boots" ->
                                   [collected EXCEPT !.bootsModels = Append(@, modelFile)])))

RECURSIVE CollectFiles(_, _, _, _)
CollectFiles(collected, modelFiles, modelTypeMap, fs) ==
    IF modelFiles = <<>> THEN collected
    ELSE CollectFiles(CollectFile(collected, Head(modelFiles), modelTypeMap, fs),
                      Tail(modelFiles), modelTypeMap, fs)

\* lines 257-321: the .model files of all source directories by category
RECURSIVE CollectModels(_, _, _)
CollectModels(collected, sourceDirectories, fs) ==
    IF sourceDirectories = <<>> THEN collected
    ELSE LET directory == Head(sourceDirectories)
         IN  CollectModels(CollectFiles(collected, fs.files[directory],
                                        fs.faceXml[directory], fs),
                           Tail(sourceDirectories), fs)

\* list.sort(key = size) and list.sort(key = size, reverse = True): stable
InsertBySize(sorted, modelFile, fs, reverse) ==
    LET after == {i \in DOMAIN sorted :
                      IF reverse THEN fs.sizes[sorted[i]] < fs.sizes[modelFile]
                      ELSE fs.sizes[sorted[i]] > fs.sizes[modelFile]}
        at == IF after = {} THEN Len(sorted) + 1 ELSE MinOf(after)
    IN  SubSeq(sorted, 1, at - 1) \o <<modelFile>> \o SubSeq(sorted, at, Len(sorted))

RECURSIVE SortBySize(_, _, _)
SortBySize(modelFiles, fs, reverse) ==
    IF modelFiles = <<>> THEN <<>>
    ELSE InsertBySize(SortBySize(SubSeq(modelFiles, 1, Len(modelFiles) - 1), fs, reverse),
                      modelFiles[Len(modelFiles)], fs, reverse)

\* lines 410-415 and 475-480: the last candidate with "hair" in its name
\* and the last one without
HairByName(candidates) ==
    LET hairs == {i \in DOMAIN candidates :
                      Contains(Lower(BaseNameOf(candidates[i])), "hair")}
        others == DOMAIN candidates \ hairs
    IN  [hairModel |-> IF hairs = {} THEN NoneStr ELSE candidates[MaxOf(hairs)],
         faceModel |-> IF others = {} THEN NoneStr ELSE candidates[MaxOf(others)]]

\* lines 407-428 (two face models) and 467-491 (more than two): the models
\* that become face_high.fmdl and hair_high.fmdl
ChooseFaceAndHair(faceModels, fs) ==
    LET modelSizes == SortBySize(faceModels, fs, Len(faceModels) > 2)
        candidates == IF Len(faceModels) > 2 THEN SubSeq(modelSizes, 1, 2)
                      ELSE faceModels
        named == HairByName(candidates)
    IN  IF named.hairModel = NoneStr
        THEN IF Len(faceModels) > 2
             THEN [hairModel |-> modelSizes[2], faceModel |-> modelSizes[1]]
             ELSE [hairModel |-> modelSizes[1], faceModel |-> modelSizes[2]]
        ELSE IF named.faceModel = NoneStr
        THEN [hairModel |-> named.hairModel,
              faceModel |-> IF candidates[1] /= named.hairModel THEN candidates[1]
                            ELSE candidates[2]]
        ELSE named

\* lines 367-525: the conversions into the Faces folder, in order
FaceConversions(collected, fs) ==
    LET faceModels == collected.faceModels
        chosen == ChooseFaceAndHair(faceModels, fs)
    IN  (IF collected.hairHighModel /= NoneStr
         THEN <<[output |-> "hair_high.fmdl", source |-> collected.hairHighModel]>>
         ELSE <<>>)
        \o (IF Len(faceModels) = 0 THEN <<>>
            ELSE IF Len(faceModels) = 1
            THEN <<[output |-> "face_high.fmdl", source |-> faceModels[1]]>>
            ELSE <<[output |-> "face_high.fmdl", source |-> chosen.faceModel],
                   [output |-> "hair_high.fmdl", source |-> chosen.hairModel]>>)

\* lines 683-688: the output name of a glove model
GloveOutputName(modelFile) ==
    IF EndsWith(Lower(BaseNameOf(modelFile)), "_l") THEN "glove_l"
    ELSE IF EndsWith(Lower(BaseNameOf(modelFile)), "_r") THEN "glove_r"
    ELSE BaseNameOf(modelFile)

\* loadModel, convertModel or saveFmdl raises inside the try block
ConversionFails(modelFile, fs) == convertModelRaises(loadModel(fs, modelFile))

\* the conversions that did not raise
Converted(conversions, fs) ==
    SelectSeq(conversions, LAMBDA c : ~ConversionFails(c.source, fs))

\* the names in order, each once (lines 702-703)
RECURSIVE Unique(_)
Unique(names) ==
    IF names = <<>> THEN <<>>
    ELSE LET front == Unique(SubSeq(names, 1, Len(names) - 1))
             last == names[Len(names)]
         IN  IF last \in Range(front) THEN front ELSE Append(front, last)

EmptyDestination == [folders |-> {}, writes |-> <<>>, manifests |-> <<>>]

\* lines 353-587: what is made in the Faces folder of the player
FacesOutput(playerFolderName, collected, fs) ==
    LET facesFolder == Join("Faces", playerFolderName)
    IN  Bind(Converted(FaceConversions(collected, fs), fs), LAMBDA converted :
        [folders   |-> {"Faces", facesFolder},
         writes    |-> [i \in DOMAIN converted |->
                           [path    |-> Join(facesFolder, converted[i].output),
                            sources |-> <<converted[i].source>>]]
                       \o (IF "face_diff.bin" \in fs.lib
                           THEN <<[path    |-> Join(facesFolder, "face_diff.bin"),
                                   sources |-> <<"lib/face_diff.bin">>]>>
                           ELSE <<>>),
         manifests |-> Join(facesFolder, "face.fpk.xml")
                           :> (<<"face_diff.bin">>
                               \o [i \in DOMAIN converted |-> converted[i].output])])

EmptyOutput == [folders |-> {}, writes |-> <<>>, manifests |-> <<>>]

\* lines 589-660: what is made in the Boots folder, when there are boots models
BootsOutput(bootsFolderName, bootsModels, bootsSklPath, fs) ==
    LET bootsFolder == Join("Boots", bootsFolderName)
    IN  IF Len(bootsModels) = 0 THEN EmptyOutput
        ELSE [folders   |-> {"Boots", bootsFolder},
              writes    |-> (IF combineBootsModelsRaises(bootsModels, fs) THEN <<>>
                             ELSE <<[path    |-> Join(bootsFolder, "boots.fmdl"),
                                     sources |-> bootsModels]>>)
                            \o (IF bootsSklPath /= NoneStr /\ "boots.skl" \in fs.lib
                                THEN <<[path    |-> Join(bootsFolder, "boots.skl"),
                                        sources |-> <<bootsSklPath>>]>>
                                ELSE <<>>),
              manifests |-> Join(bootsFolder, "boots.fpk.xml")
                                :> <<"boots.skl", "boots.fmdl">>]

\* lines 662-746: what is made in the Gloves folder, when there are glove models
GlovesOutput(glovesFolderName, gloveModels, fs) ==
    LET glovesFolder == Join("Gloves", glovesFolderName)
        converted == Converted([i \in DOMAIN gloveModels |->
                                   [output |-> GloveOutputName(gloveModels[i]),
                                    source |-> gloveModels[i]]], fs)
        convertedGloveNames == Unique([i \in DOMAIN converted |-> converted[i].output])
    IN  IF Len(gloveModels) = 0 THEN EmptyOutput
        ELSE [folders   |-> {"Gloves", glovesFolder},
              writes    |-> [i \in DOMAIN converted |->
                                [path    |-> Join(glovesFolder,
                                                  converted[i].output \o ".fmdl"),
                                 sources |-> <<converted[i].source>>]],
              manifests |-> Join(glovesFolder, "glove.fpk.xml")
                                :> [i \in DOMAIN convertedGloveNames |->
                                       convertedGloveNames[i] \o ".fmdl"]]

\* lines 353-746: the destination with the three folders of the player
WriteFolders(destination, folderName, bootsFolderName, glovesFolderName, collected, bootsSklPath, fs) ==
    Bind(FacesOutput(folderName, collected, fs), LAMBDA faces :
        Bind(BootsOutput(bootsFolderName, collected.bootsModels, bootsSklPath, fs),
             LAMBDA boots :
                 Bind(GlovesOutput(glovesFolderName, collected.gloveModels, fs),
                      LAMBDA gloves :
                          [folders   |-> destination.folders \cup faces.folders
                                             \cup boots.folders \cup gloves.folders,
                           writes    |-> destination.writes \o faces.writes
                                             \o boots.writes \o gloves.writes,
                           manifests |-> gloves.manifests @@ boots.manifests
                                             @@ faces.manifests
                                             @@ destination.manifests])))

\* convertFaceFolder(sourceDirectories, destinationDirectory, ..., bootsSklPath,
\* playerFolderName, bootsGlovesBaseId, relativePlayerId): the destination
\* directory afterwards
convertFaceFolder(sourceDirectories, destination, bootsSklPath, playerFolderName, ids, fs) ==
    Bind(IF playerFolderName = NoneStr /\ Len(sourceDirectories) > 0
         THEN Basename(sourceDirectories[1])
         ELSE playerFolderName,
         LAMBDA folderName :
             LET sharedBootsFolderName == SharedFolderName("k", ids, folderName)
                 sharedGlovesFolderName == SharedFolderName("g", ids, folderName)
             IN  Bind(CollectModels(EmptyCollection, sourceDirectories, fs),
                      LAMBDA collected :
                          WriteFolders(destination, folderName,
                                       IF sharedBootsFolderName /= NoneStr
                                       THEN sharedBootsFolderName ELSE folderName,
                                       IF sharedGlovesFolderName /= NoneStr
                                       THEN sharedGlovesFolderName ELSE folderName,
                                       collected, bootsSklPath, fs)))

\* the paths of a destination directory
DestinationPaths(destination) ==
    destination.folders
        \cup {destination.writes[i].path : i \in DOMAIN destination.writes}
        \cup DOMAIN destination.manifests

\* the source paths of the file system
SourcePaths(fs) ==
    UNION {{Join(d, fs.listdir[d][i]) : i \in DOMAIN fs.listdir[d]} :
               d \in DOMAIN fs.listdir}

\* util.ijoin(directory, name): the entry of the directory with that name,
\* whatever its case, or None
ijoin(paths, directory, name) ==
    LET found == {p \in paths : Dirname(p) = directory
                                /\ Lower(Basename(p)) = Lower(name)}
    IN  IF found = {} THEN NoneStr ELSE CHOOSE p \in found : TRUE

\* util.iglob(directory, "*" + extension): the files of the directory with
\* that extension, whatever its case
iglob(paths, directory, extension) ==
    {p \in paths : Dirname(p) = directory /\ EndsWith(Lower(Basename(p)), extension)}

AsciiOrder == " -./0123456789ABCDEFGHIJKLMNOPQRSTUVWXYZ_abcdefghijklmnopqrstuvwxyz"

\* character -> its place in the order
Ord ==
    [c \in {CharAt(AsciiOrder, i) : i \in 1..Len(AsciiOrder)} |->
        CHOOSE i \in 1..Len(AsciiOrder) : CharAt(AsciiOrder, i) = c]

\* a < b for str: the first place they differ decides, else the length
StrLess(a, b) ==
    LET n == IF Len(a) < Len(b) THEN Len(a) ELSE Len(b)
        differ == {i \in 1..n : /\ CharAt(a, i) /= CharAt(b, i)
                                /\ SubSeq(a, 1, i - 1) = SubSeq(b, 1, i - 1)}
    IN  IF differ = {} THEN Len(a) < Len(b)
        ELSE \E i \in differ : Ord[CharAt(a, i)] < Ord[CharAt(b, i)]

\* list.sort() of distinct strings: the i-th is the one with i - 1 before it
SortStrings(strings) ==
    [i \in 1..Len(strings) |->
        CHOOSE s \in Range(strings) :
            Cardinality({t \in Range(strings) : StrLess(t, s)}) = i - 1]

\* lines 247-265: the player's source face folder, or None
SourceFaceDirectory(sourceDirectory, relativePlayerId, fs) ==
    Bind(ijoin(SourcePaths(fs), sourceDirectory, "Faces"), LAMBDA sourceFacesDirectory :
        IF sourceFacesDirectory = NoneStr THEN NoneStr
        ELSE Bind(SelectSeq([i \in DOMAIN fs.listdir[sourceFacesDirectory] |->
                                Join(sourceFacesDirectory,
                                     fs.listdir[sourceFacesDirectory][i])],
                            LAMBDA itemPath : itemPath \in fs.isdir),
                  LAMBDA playerFolders :
                      IF relativePlayerId - 1 < Len(playerFolders)
                      THEN SortStrings(playerFolders)[relativePlayerId]
                      ELSE NoneStr))

\* lines 306-332: the folder of the player under parentName holds an .fmdl
HasModelIn(destination, parentName, folderName) ==
    LET paths == DestinationPaths(destination)
        parentFolder == ijoin(paths, "", parentName)
        playerFolder == ijoin(paths, parentFolder, folderName)
    IN  /\ parentFolder /= NoneStr
        /\ playerFolder /= NoneStr
        /\ iglob(paths, playerFolder, ".fmdl") /= {}

\* lines 288-342: what convertPlayer passes on to convertPlayerSaveData, its
\* source face folder converted into the destination
DetectedModels(sourceFaceDirectory, destination, relativePlayerId, bootsGlovesBaseId) ==
    LET playerFolderName == Basename(sourceFaceDirectory)
        calculatedBootsId == bootsGlovesBaseId + relativePlayerId - 1
        playerName == PlayerName(playerFolderName)
        bootsFolderName == "k" \o Format04d(calculatedBootsId) \o " - " \o playerName
        glovesFolderName == "g" \o Format04d(calculatedBootsId) \o " - " \o playerName
        hasBootsModel == HasModelIn(destination, "Boots", bootsFolderName)
        hasGlovesModel == HasModelIn(destination, "Gloves", glovesFolderName)
    IN  [hasFaceModel   |-> HasModelIn(destination, "Faces", playerFolderName),
         hasBootsModel  |-> hasBootsModel,
         hasGlovesModel |-> hasGlovesModel,
         bootsId        |-> IF hasBootsModel
                            THEN <<bootsGlovesBaseId + relativePlayerId - 1>> ELSE None,
         glovesId       |-> IF hasGlovesModel
                            THEN <<bootsGlovesBaseId + relativePlayerId - 1>> ELSE None]

\* lines 333-336: no face folder for the player
NoModels ==
    [hasFaceModel |-> FALSE, hasBootsModel |-> FALSE, hasGlovesModel |-> FALSE,
     bootsId |-> None, glovesId |-> None]

\* mkdir(containingDirectory, name)
mkdir(destination, name) ==
    IF ijoin(DestinationPaths(destination), "", name) /= NoneStr THEN destination
    ELSE [destination EXCEPT !.folders = @ \cup {name}]

(***************************************************************************)
(* The face folder converter and the player converter: source folders of   *)
(* up to MaxModelFiles model files, converted on their own or as the       *)
(* folder of one of a team's players                                       *)
(***************************************************************************)
MaxModelFiles == 3

NumPlayers == 23

ModelFileNames ==
    {"face_high_win32.model", "face.model", "Hair_Back.model", "hair.model",
     "oral.model", "glove_L.model"}

FileSizes == {500, 2000}

\* the sequences of distinct elements of S of length up to n
DistinctSeqs(S, n) ==
    {q \in SeqsUpTo(S, n) : \A i, j \in DOMAIN q : q[i] = q[j] => i = j}

FaceDirectory == "in/XXX01 - Snuffy"

ExtraDirectory == "in/extra"

\* the maps of a face.xml: one that types oral.model as hair, gives
\* the glove an unknown type and types face*.model by pattern
FaceXmls ==
    <<<<<<"oral.model", "Hair">>, <<"glove_l.model", "ornament">>,
        <<"face*.model", "face_neck">>>>>>

\* a folder as it is, with its last model not convertible, with a face.xml
FolderVariants ==
    <<[broken |-> FALSE, faceXml |-> None],
      [broken |-> TRUE, faceXml |-> None],
      [broken |-> FALSE, faceXml |-> FaceXmls[1]]>>

\* the model of a source file: a convertible one, or one convertModel raises on
FileModel(broken) == IF broken THEN DanglingModel ELSE SourceModel(<<"Hips">>, "one")

\* the file system of a source folder with the files named, their sizes, the
\* broken-th of them not convertible, and a second folder with a hair model
FolderDisk(names, sizes, broken, faceXml) ==
    LET paths == [i \in DOMAIN names |-> Join(FaceDirectory, names[i])]
        extra == Join(ExtraDirectory, "hair.model")
    IN  [dirs        |-> <<>>,
         models      |-> [p \in Range(paths) \cup {extra} |->
                             FileModel(broken > 0 /\ p = paths[broken])],
         sizes       |-> [p \in Range(paths) \cup {extra} |->
                             IF p = extra THEN 2000
                             ELSE sizes[CHOOSE i \in DOMAIN paths : paths[i] = p]],
         files       |-> (FaceDirectory :> paths) @@ (ExtraDirectory :> <<extra>>),
         faceXml     |-> (FaceDirectory :> faceXml) @@ (ExtraDirectory :> None),
         listdir     |-> <<>>,
         isdir       |-> {},
         lib         |-> {"face_diff.bin", "boots.skl"},
         destination |-> EmptyDestination]

\* the calls: the folder on its own, as a player's with the folder name given
\* or empty, and together with the second folder
FaceFolderCalls ==
    [fn : {"convertFaceFolder"}, sourceDirectories : {<<FaceDirectory>>},
     playerFolderName : {NoneStr}, ids : {None}, bootsSklPath : {"lib/boots.skl"}]
    \cup [fn : {"convertFaceFolder"}, sourceDirectories : {<<FaceDirectory>>},
          playerFolderName : {"XXX01 - Snuffy", ""},
          ids : {[bootsGlovesBaseId |-> 101, relativePlayerId |-> 1]},
          bootsSklPath : {"lib/boots.skl"}]
    \cup [fn : {"convertFaceFolder"},
          sourceDirectories : {<<FaceDirectory, ExtraDirectory>>},
          playerFolderName : {NoneStr}, ids : {None}, bootsSklPath : {NoneStr}]

\* the name of the i-th player's source folder
PlayerFolder(i, style) ==
    "XXX" \o ZeroPad(DecimalOf(i), 2)
          \o (IF style = "dash" THEN " - Player" \o DecimalOf(i) ELSE "")

\* the model files the folder of the player converted holds
PlayerShapes ==
    {<<>>, <<"oral.model">>, <<"face.model", "oral.model", "glove_L.model">>,
     <<"Hand_r.model", "broken_boot.model">>}

\* the file system of an export: a Faces folder (under the name given, or
\* none) listing n player folders from the last to the first and a stray
\* file; the folder of the player-th player holds the model files of the shape
ExportDisk(facesName, n, style, player, shape, lib) ==
    LET faces == Join("src", facesName)
        folders == [i \in 1..n |-> PlayerFolder(n + 1 - i, style)]
        holder == Join(faces, PlayerFolder(player, style))
        paths == {Join(holder, shape[k]) : k \in DOMAIN shape}
    IN  [dirs        |-> <<>>,
         models      |-> [p \in paths |-> FileModel(Basename(p) = "broken_boot.model")],
         sizes       |-> [p \in paths |-> 2000],
         files       |-> [d \in {Join(faces, folders[i]) : i \in DOMAIN folders} |->
                             IF d = holder THEN [k \in DOMAIN shape |-> Join(d, shape[k])]
                             ELSE <<>>],
         faceXml     |-> [d \in {Join(faces, folders[i]) : i \in DOMAIN folders} |-> None],
         listdir     |-> IF facesName = NoneStr THEN "src" :> <<"Kit Configs">>
                         ELSE ("src" :> <<"Kit Configs", facesName>>)
                              @@ (faces :> Append(folders, "notes.txt")),
         isdir       |-> {Join("src", "Kit Configs"), faces}
                             \cup {Join(faces, folders[i]) : i \in DOMAIN folders},
         lib         |-> lib,
         destination |-> EmptyDestination]

\* the exports: all players' folders in both styles and with every shape, one
\* without the lib templates, one a folder short, one without a Faces folder
Exports ==
    [facesName : {"faces"}, n : {NumPlayers}, style : {"dash", "plain"},
     shape : PlayerShapes, lib : {{"face_diff.bin", "boots.skl"}}]
    \cup [facesName : {"faces"}, n : {NumPlayers}, style : {"dash"},
          shape : {<<"oral.model">>}, lib : {{}}]
    \cup [facesName : {"Faces"}, n : {NumPlayers - 1}, style : {"dash"},
          shape : {<<"oral.model">>}, lib : {{"face_diff.bin", "boots.skl"}}]
    \cup [facesName : {NoneStr}, n : {0}, style : {"dash"},
          shape : {<<>>}, lib : {{"face_diff.bin", "boots.skl"}}]

BaseIds == {101, 10001}

InitFaces ==
    /\ pc = "call"
    /\ ret = None
    /\ loaded = <<>>
    /\ \/ /\ call \in FaceFolderCalls
          /\ \E names \in DistinctSeqs(ModelFileNames, MaxModelFiles) :
                 \E sizes \in [DOMAIN names -> FileSizes] :
                     \E variant \in IF call.ids = None /\ Len(call.sourceDirectories) = 1
                                    THEN Range(FolderVariants)
                                    ELSE {FolderVariants[1]} :
                         disk = FolderDisk(names, sizes,
                                           IF variant.broken THEN Len(names) ELSE 0,
                                           variant.faceXml)
       \/ /\ call \in [fn : {"convertPlayer"}, sourceDirectory : {"src"},
                       relativePlayerId : 1..NumPlayers,
                       bootsGlovesBaseId : BaseIds]
          /\ \E export \in Exports :
                 disk = ExportDisk(export.facesName, export.n, export.style,
                                   IF call.relativePlayerId <= export.n
                                   THEN call.relativePlayerId ELSE 1,
                                   export.shape, export.lib)

CallConvertFaceFolder ==
    /\ pc = "call"
    /\ call.fn = "convertFaceFolder"
    /\ disk' = [disk EXCEPT !.destination =
                    convertFaceFolder(call.sourceDirectories, disk.destination,
                                      call.bootsSklPath, call.playerFolderName,
                                      call.ids, disk)]
    /\ ret' = None
    /\ pc' = "return"
    /\ UNCHANGED <<call, loaded>>

\* convertPlayer(sourceDirectory, destinationDirectory, relativePlayerId,
\* bootsGlovesBaseId, ...); ret is what it passes on to convertPlayerSaveData
CallConvertPlayer ==
    /\ pc = "call"
    /\ call.fn = "convertPlayer"
    /\ \E sourceFaceDirectory \in {SourceFaceDirectory(call.sourceDirectory,
                                                      call.relativePlayerId, disk)} :
       \E common \in {mkdir(disk.destination, "Common")} :
           IF sourceFaceDirectory = NoneStr
           THEN /\ disk' = [disk EXCEPT !.destination = common]
                /\ ret' = NoModels
           ELSE \E converted \in
                    {convertFaceFolder(<<sourceFaceDirectory>>, common,
                                       IF "boots.skl" \in disk.lib
                                       THEN "lib/boots.skl" ELSE NoneStr,
                                       NoneStr,
                                       [bootsGlovesBaseId |-> call.bootsGlovesBaseId,
                                        relativePlayerId  |-> call.relativePlayerId],
                                       disk)} :
                    /\ disk' = [disk EXCEPT !.destination = converted]
                    /\ ret' = DetectedModels(sourceFaceDirectory, converted,
                                             call.relativePlayerId,
                                             call.bootsGlovesBaseId)
    /\ pc' = "return"
    /\ UNCHANGED <<call, loaded>>

NextFaces == CallConvertFaceFolder \/ CallConvertPlayer

SpecFaces == InitFaces /\ [][NextFaces]_vars

\* the folders under parentName of the destination that hold an .fmdl file
FoldersWithModel(parentName) ==
    {Dirname(disk.destination.writes[i].path) :
        i \in {j \in DOMAIN disk.destination.writes :
                   /\ StartsWith(disk.destination.writes[j].path, parentName \o "/")
                   /\ EndsWith(disk.destination.writes[j].path, ".fmdl")}}

\* C29: after convertPlayer, a player whose boots (gloves) model was converted
\* is reported as having one, and the ID assigned is the one in the name of
\* the k#### (g####) folder convertFaceFolder made for the player
C29_LookedUpFoldersAreThoseCreated ==
    Returned("convertPlayer") =>
        /\ \A folder \in FoldersWithModel("Boots") :
               /\ ret.hasBootsModel
               /\ StartsWith(Basename(folder),
                             "k" \o Format04d(ret.bootsId[1]) \o " - ")
        /\ \A folder \in FoldersWithModel("Gloves") :
               /\ ret.hasGlovesModel
               /\ StartsWith(Basename(folder),
                             "g" \o Format04d(ret.glovesId[1]) \o " - ")

\* the writes of .fmdl files into the Faces folder
FaceModelWrites ==
    {i \in DOMAIN disk.destination.writes :
         /\ StartsWith(disk.destination.writes[i].path, "Faces/")
         /\ EndsWith(disk.destination.writes[i].path, ".fmdl")}

\* C30: after convertFaceFolder, face.fpk.xml lists no file twice, no .fmdl
\* of the Faces folder was written twice, and the face and hair outputs were
\* made from different source files
C30_EachFaceOutputFromOneSource ==
    Returned("convertFaceFolder") =>
        LET writes == disk.destination.writes
            manifests == disk.destination.manifests
        IN  /\ \A p \in DOMAIN manifests :
                   Basename(p) = "face.fpk.xml" =>
                       \A i, j \in DOMAIN manifests[p] :
                           manifests[p][i] = manifests[p][j] => i = j
            /\ \A i, j \in FaceModelWrites :
                   i /= j => /\ writes[i].path /= writes[j].path
                             /\ writes[i].sources /= writes[j].sources

====
